---- MODULE Spec2Model ----
EXTENDS Integers, Sequences, FiniteSets, TLC

\* Volatility harvester: tick buffer, window aggregator, scheduler and
\* write pipeline.  Times are minutes of the trading day; prices are in
\* tenths of a rupee (100.1 is 1001).

\* ---------------------------------------------------------------- settings

MARKET_OPEN == 555

CANDLE_INTERVAL_MINUTES == 5

\* Number of five-minute windows of the modelled session.
NumWindows == 3

\* The session close: the session is shortened to NumWindows windows.
MARKET_CLOSE == MARKET_OPEN + NumWindows * CANDLE_INTERVAL_MINUTES

MAX_RETRIES == 5

\* Seconds.
RETRY_BASE_DELAY_S == 1

\* Ticks delivered between two snapshot_and_reset calls.
MaxTicks == 4

\* None, for an optional window start.
NoWindow == 0

Symbols == {"X"}

Prices == {1001, 1002, 1003, 1004}

Min(a, b) == IF a <= b THEN a ELSE b

Max(a, b) == IF a >= b THEN a ELSE b

\* ---------------------------------------------------------------- time grid

\* _generate_boundary_list: open, open+5, ... while current < end.
RECURSIVE BoundaryListFrom(_, _)
BoundaryListFrom(current, end) ==
    IF current < end
    THEN <<current>> \o BoundaryListFrom(current + CANDLE_INTERVAL_MINUTES, end)
    ELSE <<>>

generate_all_windows == BoundaryListFrom(MARKET_OPEN, MARKET_CLOSE)

generate_finalization_times ==
    [i \in 1..Len(generate_all_windows) |->
        generate_all_windows[i] + CANDLE_INTERVAL_MINUTES]

\* An assignment to the first boundary after the timestamp.
assign_tick_to_next_window(ts) ==
    LET boundaries == generate_all_windows
        last_window_end == boundaries[Len(boundaries)] + CANDLE_INTERVAL_MINUTES
    IN  IF ts < boundaries[1] THEN NoWindow
        ELSE IF ts >= last_window_end THEN NoWindow
        ELSE boundaries[1] + CANDLE_INTERVAL_MINUTES
                 * (((ts - boundaries[1]) \div CANDLE_INTERVAL_MINUTES) + 1)

\* assign_tick_to_window: the largest boundary <= ts; NoWindow stands for the
\* ValueError raised before the open and at or after the last window's end.
assign_tick_to_window(ts) ==
    LET boundaries == generate_all_windows
        last_window_end == boundaries[Len(boundaries)] + CANDLE_INTERVAL_MINUTES
        below == {i \in 1..Len(boundaries) : boundaries[i] <= ts}
    IN  IF ts < boundaries[1] THEN NoWindow
        ELSE IF ts >= last_window_end THEN NoWindow
        ELSE boundaries[CHOOSE i \in below : \A j \in below : j <= i]

\* Exchange timestamps the feed may stamp on a tick: the first and the last
\* minute of every window, one minute before the open and the close itself.
TickTimes ==
    {MARKET_OPEN - 1, MARKET_CLOSE}
    \cup {generate_all_windows[i] : i \in 1..NumWindows}
    \cup {generate_all_windows[i] + CANDLE_INTERVAL_MINUTES - 1 : i \in 1..NumWindows}

VARIABLES
    \* TickBuffer
    buffer, active_window, frozen, late_tick_count, future_tick_count,
    \* the last TickBuffer call and what it returned: lastRet for update (FALSE
    \* after any other call), lastSnap for snapshot_and_reset (empty after any
    \* other call); lastWin is the window_start passed to update
    lastOp, lastRet, lastSnap, lastWin,
    \* history: freeze() since set_active_window(); ticks since the snapshot
    barrier, nTicks,
    \* WritePipeline: the queue, the _running flag, the fallback file, the
    \* market_data sheet (row -> number of copies)
    queue, running, fallback_file, market_data,
    \* the SheetsWriter thread: its position, the batch it dequeued, the caller
    \* of _process_batch, _flush_fallback's pending list and index, the batch in
    \* _process_batch, rows_to_write and the attempt of _write_with_retry
    wpc, cur, ctx, pending, pidx, proc, rows_to_write, attempt,
    \* history: batches enqueued so far, batches whose write failed in the
    \* running drain, whether the batch in _process_batch was fully stored
    \* when the call began, calls of enqueue so far
    enqueued, flushFailed, replay, nEnq,
    \* CandleAggregator
    agg_state, current_window,
    \* the main thread: its position, the index of the boundary it waits for,
    \* _run_session's start_idx, the candles finalize_window returned; the wall
    \* clock; whether the feed callbacks are registered
    pc, boundary_index, start_idx, candles, now, feedOn,
    \* history: windows of the ticks accumulated since the last snapshot; per
    \* symbol the first price delivered for the current window and for the
    \* window after it (0: none yet)
    tickWins, firstCur, firstNext,
    \* history of the TickBuffer: per symbol the prices of the updates that
    \* returned true since the last snapshot_and_reset
    accepted,
    \* CheckpointManager: the checkpoint directory (0: checkpoint.json, i:
    \* checkpoint_i.json); the store: the windows with rows in market_data and
    \* the atr_state sheet
    ckpt_files, bar_windows, atr_sheet,
    \* the last call of the CheckpointManager, what load_checkpoint returned,
    \* what reconcile_state_on_startup read from the store and returned
    ckOp, loaded, sheets_last_window, sheets_atr_state, reconState, reconLabel,
    \* history: calls of save_checkpoint and damaged files so far
    nSaves, nDamaged,
    \* history: saved_at of the save_checkpoint calls that wrote their file
    savedLog,
    \* ATREngine: per engine (1: the running one, 2: a fresh one) the ATRState
    \* of the instrument; the tr_history list objects; the TR and ATR of each
    \* engine's last process_batch; the last call; whether engine 2 was loaded
    atr_states, tr_lists, atr_out, atrOp, loaded2,
    \* history of the instrument since its empty state: bars processed, sum of
    \* the TRs of the first ATR_PERIOD bars, whether the state descends from
    \* the empty state without a gap; calls of process_batch in this run and
    \* those for a bar with a range, bars since engine
    \* 2 was loaded, restarts
    nBars, trSum, fromEmpty, nProcessed, nRange, nAfterLoad, nRestarts,
    \* GapFiller: _last_close; the last call of fill: the candles passed, the
    \* dict after the call, the unfillable list returned, "fill" or "raised";
    \* calls of fill so far
    gap_last_close, gap_input, gap_candles, gap_unfillable, gapOp, nFills,
    \* ReconnectManager: the constructor's arguments, _attempts; the last call
    \* of attempt_reconnect: _attempts when it began, what each attempt's
    \* callbacks did, the sleeps, callback calls and alerts in order, and the
    \* value returned
    rc_config, rc_attempts, rc_start, rc_outcomes, rc_trace, rc_result,
    \* WSClient: the wall clock at the last tick that reached the buffer (0:
    \* none yet); the level of the last record _handle_reconnect logged;
    \* history: failed calls of _handle_reconnect since the last successful one
    last_tick, reconnect_log, failedReconnects,
    \* the threads in _handle_reconnect: the position of the main thread and
    \* of the feed thread ("idle" outside it); WSClient._connected
    rc_main, rc_feed, ws_connected,
    \* history: the wall clock when the feed last delivered a message (or was
    \* subscribed), and when the main thread's last reconnect cycle succeeded
    \* (0: none)
    last_delivery, reconnected_at,
    \* the store: whether it serves requests
    store_up,
    \* the current or last call of _write_with_retry: calls of append_rows,
    \* the sleeps in order, the value returned ("none" while it runs)
    nAppends, slept, write_result,
    \* history of the writer: calls of append_rows that raised, calls of
    \* _save_to_fallback, whether a partial append or a failed read happened,
    \* the batches the consumer loop has finished in order, the position in
    \* that order of the batch last spooled by the loop (0: none), the
    \* windows of the appends that succeeded in order
    nErrors, nSpooled, otherFailure, doneLog, spooledAt, writeLog,
    \* the session hours of the day from the trading calendar and the index
    \* of the aggregator's boundary list that is the active window (0: the
    \* aggregator is not initialized)
    sess_open, sess_close, sess_idx,
    \* the last tick _on_message handled: its exchange timestamp, the window
    \* assign_tick_to_window returned (NoWindow: it raised), the buffer's
    \* active window and frozen flag when it arrived, whether update accepted
    \* it; the timestamp and window of the tick before it
    tick_ts, tick_window, tick_active, tick_frozen, tick_accepted,
    prev_ts, prev_window,
    \* AlertManager: whether its schema_manager is a test double; the last
    \* call of fire: the severity, the records logged and the call of
    \* log_event in order, whether log_event raised, whether fire raised
    al_double, al_severity, al_trace, al_failed, al_raised

bufVars == <<buffer, active_window, frozen, late_tick_count, future_tick_count>>

obsVars == <<lastOp, lastRet, lastSnap, lastWin, barrier, nTicks>>

pipeVars == <<queue, running, fallback_file, market_data>>

writerVars == <<wpc, cur, ctx, pending, pidx, proc, rows_to_write, attempt>>

histVars == <<enqueued, flushFailed, replay, nEnq>>

aggVars == <<agg_state, current_window>>

mainVars == <<pc, boundary_index, start_idx, candles, now, feedOn>>

tickHist == <<tickWins, firstCur, firstNext>>

orchVars == <<aggVars, mainVars, tickHist>>

bufHist == <<accepted>>

ckptVars == <<ckpt_files, bar_windows, atr_sheet, ckOp, loaded,
              sheets_last_window, sheets_atr_state, reconState, reconLabel,
              nSaves, nDamaged, savedLog>>

\* Variables of the components checked on their own.
atrVars == <<atr_states, tr_lists, atr_out, atrOp, loaded2, nBars, trSum,
             fromEmpty, nProcessed, nRange, nAfterLoad, nRestarts>>

gapVars == <<gap_last_close, gap_input, gap_candles, gap_unfillable, gapOp, nFills>>

rcVars == <<rc_config, rc_attempts, rc_start, rc_outcomes, rc_trace, rc_result>>

\* Variables of the feed-side components checked on their own.
feedVars == <<last_tick, reconnect_log, failedReconnects>>

retryVars == <<nAppends, slept, write_result>>

storeHist == <<nErrors, nSpooled, otherFailure, doneLog, spooledAt, writeLog>>

\* The store's availability and the record of the writer's calls.
wlogVars == <<store_up, retryVars, storeHist>>

sessVars == <<sess_open, sess_close, sess_idx>>

tickVars == <<tick_ts, tick_window, tick_active, tick_frozen, tick_accepted,
              prev_ts, prev_window>>

alertVars == <<al_double, al_severity, al_trace, al_failed, al_raised>>

hbVars == <<rc_main, rc_feed, ws_connected, last_delivery, reconnected_at>>

netVars == <<rcVars, feedVars, wlogVars, sessVars, tickVars, alertVars, hbVars>>

compVars == <<ckptVars, atrVars, gapVars, netVars>>

extVars == <<bufHist, compVars>>

\* Variables of the TickBuffer, the write pipeline and the orchestrator.
coreVars == <<bufVars, obsVars, pipeVars, writerVars, histVars, orchVars, bufHist>>

vars == <<bufVars, obsVars, pipeVars, writerVars, histVars, orchVars, extVars>>

\* ---------------------------------------------------------------- TickBuffer

EmptyBuffer == [s \in {} |-> 0]

\* OHLCCandle as the dataclass declares it: no gap_filled field.
OHLCCandle(w, o, h, l, c, n) ==
    [window_start |-> w, open |-> o, high |-> h, low |-> l, close |-> c,
     tick_count |-> n]

\* What update() returns.
UpdateAccepts(window_start) ==
    /\ ~frozen
    /\ ~(active_window # NoWindow /\ window_start < active_window)
    /\ ~(active_window # NoWindow /\ window_start > active_window)

\* An accumulator that leaves the high of an existing bar as it was.
Accumulate_stale_high(buf, ticker, price, window_start) ==
    [s \in DOMAIN buf \cup {ticker} |->
        IF s # ticker THEN buf[s]
        ELSE IF ticker \notin DOMAIN buf
             THEN OHLCCandle(window_start, price, price, price, price, 1)
             ELSE [buf[s] EXCEPT !.low = Min(@, price),
                                 !.close = price,
                                 !.tick_count = @ + 1]]

\* The accumulator after an accepted tick.
Accumulate(buf, ticker, price, window_start) ==
    [s \in DOMAIN buf \cup {ticker} |->
        IF s # ticker THEN buf[s]
        ELSE IF ticker \notin DOMAIN buf
             THEN OHLCCandle(window_start, price, price, price, price, 1)
             ELSE [buf[s] EXCEPT !.high = Max(@, price),
                                 !.low = Min(@, price),
                                 !.close = price,
                                 !.tick_count = @ + 1]]

\* An update that counts a tick for a window still to come as a late tick.
TB_update_future_as_late(ticker, price, window_start) ==
    /\ IF frozen \/ (active_window # NoWindow /\ window_start # active_window)
       THEN /\ late_tick_count' = late_tick_count + 1
            /\ UNCHANGED <<buffer, future_tick_count>>
       ELSE /\ buffer' = Accumulate(buffer, ticker, price, window_start)
            /\ UNCHANGED <<late_tick_count, future_tick_count>>
    /\ lastRet' = UpdateAccepts(window_start)
    /\ lastWin' = window_start
    /\ lastOp' = "update"
    /\ lastSnap' = EmptyBuffer
    /\ nTicks' = nTicks + 1
    /\ UNCHANGED <<active_window, frozen, barrier>>

\* TickBuffer.update
TB_update(ticker, price, window_start) ==
    /\ IF frozen
       THEN /\ late_tick_count' = late_tick_count + 1
            /\ UNCHANGED <<buffer, future_tick_count>>
       ELSE IF active_window # NoWindow /\ window_start < active_window
       THEN /\ late_tick_count' = late_tick_count + 1
            /\ UNCHANGED <<buffer, future_tick_count>>
       ELSE IF active_window # NoWindow /\ window_start > active_window
       THEN /\ future_tick_count' = future_tick_count + 1
            /\ UNCHANGED <<buffer, late_tick_count>>
       ELSE /\ buffer' = Accumulate(buffer, ticker, price, window_start)
            /\ UNCHANGED <<late_tick_count, future_tick_count>>
    /\ lastRet' = UpdateAccepts(window_start)
    /\ lastWin' = window_start
    /\ lastOp' = "update"
    /\ lastSnap' = EmptyBuffer
    /\ nTicks' = nTicks + 1
    /\ UNCHANGED <<active_window, frozen, barrier>>

\* TickBuffer.set_active_window
TB_set_active_window(window_start) ==
    /\ active_window' = window_start
    /\ frozen' = FALSE
    /\ late_tick_count' = 0
    /\ future_tick_count' = 0
    /\ lastOp' = "set_active_window"
    /\ lastRet' = FALSE
    /\ lastWin' = NoWindow
    /\ lastSnap' = EmptyBuffer
    /\ barrier' = "open"
    /\ UNCHANGED <<buffer, nTicks>>

\* TickBuffer.freeze
TB_freeze ==
    /\ frozen' = TRUE
    /\ lastOp' = "freeze"
    /\ lastRet' = FALSE
    /\ lastWin' = NoWindow
    /\ lastSnap' = EmptyBuffer
    /\ barrier' = "frozen"
    /\ UNCHANGED <<buffer, active_window, late_tick_count, future_tick_count,
                   nTicks>>

\* A snapshot_and_reset that also lifts the freeze.
TB_snapshot_unfreezes ==
    /\ lastSnap' = buffer
    /\ buffer' = EmptyBuffer
    /\ late_tick_count' = 0
    /\ future_tick_count' = 0
    /\ frozen' = FALSE
    /\ lastOp' = "snapshot_and_reset"
    /\ barrier' = IF barrier = "open" THEN "open" ELSE "frozen_snapshot"
    /\ nTicks' = 0
    /\ lastRet' = FALSE
    /\ lastWin' = NoWindow
    /\ UNCHANGED active_window

\* A snapshot_and_reset that does not clear the accumulator.
TB_snapshot_keeps_buffer ==
    /\ lastSnap' = buffer
    /\ late_tick_count' = 0
    /\ future_tick_count' = 0
    /\ lastOp' = "snapshot_and_reset"
    /\ barrier' = IF barrier = "open" THEN "open" ELSE "frozen_snapshot"
    /\ nTicks' = 0
    /\ lastRet' = FALSE
    /\ lastWin' = NoWindow
    /\ UNCHANGED <<buffer, active_window, frozen>>

\* TickBuffer.snapshot_and_reset
TB_snapshot_and_reset ==
    /\ lastSnap' = buffer
    /\ buffer' = EmptyBuffer
    /\ late_tick_count' = 0
    /\ future_tick_count' = 0
    /\ lastOp' = "snapshot_and_reset"
    /\ barrier' = IF barrier = "open" THEN "open" ELSE "frozen_snapshot"
    /\ nTicks' = 0
    /\ lastRet' = FALSE
    /\ lastWin' = NoWindow
    /\ UNCHANGED <<active_window, frozen>>

\* Symbols the callers of the TickBuffer pass to update.
BufSymbols == {"X", "Y"}

\* Prices they pass.
BufPrices == {1001, 1002}

TB_Init ==
    /\ buffer = EmptyBuffer
    /\ active_window = NoWindow
    /\ frozen = FALSE
    /\ late_tick_count = 0
    /\ future_tick_count = 0
    /\ lastOp = "init"
    /\ lastRet = FALSE
    /\ lastSnap = EmptyBuffer
    /\ lastWin = NoWindow
    /\ barrier = "open"
    /\ nTicks = 0

\* ------------------------------------------------------------ WritePipeline

\* Tickers of the enriched candles of one write batch, in row order.
BatchTickers == <<"X", "Y">>

\* Windows for which a batch is enqueued.
NumBatchWindows == 2

\* Batches enqueued in one run.
MaxEnqueues == 3

\* Copies of one row the market_data sheet may come to hold.
MaxCopies == 2

\* generate_row_id: "{ticker}_{YYYYMMDD_HHMM}" of the window start.
generate_row_id(ticker, window_start) == <<ticker, window_start>>

\* EnrichedCandle.to_row: column 0 the row id, column 1 the window start.
to_row(ticker, window_start) ==
    [id |-> generate_row_id(ticker, window_start), ts |-> window_start]

\* The batch enqueue() builds for the candles of one finalized window.
WriteBatch(window_start) ==
    [window_start |-> window_start,
     rows |-> [i \in 1..Len(BatchTickers) |->
                  to_row(BatchTickers[i], window_start)]]

\* The None sentinel of stop_consumer, and "no batch".
Sentinel == [window_start |-> NoWindow, rows |-> <<>>]

BatchWindows == {generate_all_windows[i] : i \in 1..NumBatchWindows}

AllRows == {to_row(BatchTickers[i], w) : i \in 1..Len(BatchTickers), w \in BatchWindows}

RowIds(rows) == {rows[i].id : i \in 1..Len(rows)}

SeqToSet(s) == {s[i] : i \in 1..Len(s)}

\* The rows of a list whose id is in a set, in order.
RECURSIVE FilterRows(_, _)
FilterRows(rows, ids) ==
    IF rows = <<>> THEN <<>>
    ELSE IF Head(rows).id \in ids
         THEN <<Head(rows)>> \o FilterRows(Tail(rows), ids)
         ELSE FilterRows(Tail(rows), ids)

\* A query that finds no row.
get_existing_ids_none(window_start, read_ok) == {}

\* get_existing_ids_for_window: ids of the rows whose timestamp column is the
\* window; the empty set when the read fails.
get_existing_ids_for_window(window_start, read_ok) ==
    IF read_ok
    THEN {r.id : r \in {x \in AllRows : market_data[x] > 0 /\ x.ts = window_start}}
    ELSE {}

\* worksheet.append_rows of the first k rows of a list.
AppendRows(md, rows, k) ==
    [r \in AllRows |->
        md[r] + Cardinality({i \in 1..k : rows[i] = r})]

\* _save_to_fallback: load the file if it exists, append, rewrite.
SaveToFallback(file, batch) ==
    [exists |-> TRUE,
     data |-> (IF file.exists THEN file.data ELSE <<>>) \o <<batch>>]

NoFile == [exists |-> FALSE, data |-> <<>>]

\* All row ids of a batch are in market_data.
InStore(batch) ==
    \A i \in 1..Len(batch.rows) : market_data[batch.rows[i]] > 0

\* enqueue()
WP_enqueue(window_start) ==
    /\ queue' = Append(queue, WriteBatch(window_start))
    /\ enqueued' = enqueued \cup {WriteBatch(window_start)}
    /\ nEnq' = nEnq + 1
    /\ UNCHANGED <<running, fallback_file, market_data, writerVars,
                   flushFailed, replay>>

\* stop_consumer(): clear _running, put the sentinel.
WP_stop_consumer ==
    /\ running' = FALSE
    /\ queue' = Append(queue, Sentinel)
    /\ UNCHANGED <<fallback_file, market_data, writerVars, histVars>>

\* _consumer_loop: the while test.
CL_while ==
    /\ wpc = "while"
    /\ wpc' = IF running THEN "get" ELSE "exited"
    /\ UNCHANGED <<pipeVars, cur, ctx, pending, pidx, proc, rows_to_write,
                   attempt, histVars>>

\* _consumer_loop: queue.get timed out (queue.Empty), continue.
CL_get_empty ==
    /\ wpc = "get"
    /\ queue = <<>>
    /\ wpc' = "while"
    /\ UNCHANGED <<pipeVars, cur, ctx, pending, pidx, proc, rows_to_write,
                   attempt, histVars>>

\* Entering _process_batch(batch) from a caller.
EnterProcessBatch(batch, caller) ==
    /\ proc' = batch
    /\ ctx' = caller
    /\ replay' = InStore(batch)
    /\ wpc' = "dedup"

\* _consumer_loop: queue.get returned an item; the sentinel breaks the loop,
\* a batch goes through _flush_fallback (up to its for loop) and, when there
\* is nothing to flush, into _process_batch.
CL_get ==
    /\ wpc = "get"
    /\ queue # <<>>
    /\ queue' = Tail(queue)
    /\ IF Head(queue) = Sentinel
       THEN /\ wpc' = "exited"
            /\ UNCHANGED <<fallback_file, cur, ctx, pending, pidx, proc,
                           flushFailed, replay>>
       ELSE /\ cur' = Head(queue)
            /\ IF ~fallback_file.exists
               THEN /\ EnterProcessBatch(Head(queue), "main")
                    /\ UNCHANGED <<fallback_file, pending, pidx, flushFailed>>
               ELSE IF fallback_file.data = <<>>
               THEN /\ fallback_file' = NoFile
                    /\ EnterProcessBatch(Head(queue), "main")
                    /\ UNCHANGED <<pending, pidx, flushFailed>>
               ELSE /\ pending' = fallback_file.data
                    /\ pidx' = 1
                    /\ flushFailed' = {}
                    /\ wpc' = "flush"
                    /\ ctx' = "flush"
                    /\ UNCHANGED <<fallback_file, proc, replay>>
    /\ UNCHANGED <<running, market_data, rows_to_write, attempt, enqueued, nEnq>>

\* _flush_fallback: the for loop over pending and what follows it.  No call
\* of _process_batch raises (it catches every store error itself and the
\* worksheet handle is cached since start-up), so remaining stays empty.
FF_for ==
    /\ wpc = "flush"
    /\ LET remaining == <<>>
       IN  IF pidx <= Len(pending)
           THEN /\ EnterProcessBatch(pending[pidx], "flush")
                /\ UNCHANGED <<fallback_file, pending, pidx>>
           ELSE /\ fallback_file' =
                      IF remaining # <<>>
                      THEN [exists |-> TRUE, data |-> remaining]
                      ELSE NoFile
                /\ pending' = <<>>
                /\ pidx' = 0
                /\ EnterProcessBatch(cur, "main")
    /\ UNCHANGED <<queue, running, market_data, cur, rows_to_write, attempt,
                   enqueued, flushFailed, nEnq>>

\* Returning from _process_batch to its caller.
ReturnFromProcessBatch ==
    /\ proc' = Sentinel
    /\ replay' = FALSE
    /\ rows_to_write' = <<>>
    /\ attempt' = 0
    /\ IF ctx = "flush"
       THEN /\ wpc' = "flush"
            /\ pidx' = pidx + 1
            /\ UNCHANGED <<cur, ctx, pending, doneLog>>
       ELSE /\ wpc' = "while"
            /\ cur' = Sentinel
            /\ doneLog' = Append(doneLog, proc)
            /\ UNCHANGED <<ctx, pending, pidx>>

\* _process_batch up to the call of _write_with_retry: the existing-id query,
\* the delta, the skip when nothing is left to write.
PB_dedup(read_ok) ==
    /\ wpc = "dedup"
    /\ LET all_rows == proc.rows
           all_ids == RowIds(all_rows)
           existing_ids == get_existing_ids_for_window(proc.window_start, read_ok)
           ids_to_write == all_ids \ existing_ids
       IN  IF ids_to_write = {}
           THEN /\ ReturnFromProcessBatch
                /\ UNCHANGED retryVars
           ELSE /\ rows_to_write' =
                      IF Cardinality(ids_to_write) < Len(all_rows)
                      THEN FilterRows(all_rows, ids_to_write)
                      ELSE all_rows
                /\ attempt' = 1
                /\ wpc' = "append"
                /\ nAppends' = 0
                /\ slept' = <<>>
                /\ write_result' = "none"
                /\ UNCHANGED <<cur, ctx, pending, pidx, proc, replay, doneLog>>
    /\ otherFailure' = (otherFailure \/ ~read_ok)
    /\ UNCHANGED <<pipeVars, enqueued, flushFailed, nEnq, store_up, nErrors,
                   nSpooled, spooledAt, writeLog>>

\* What one call of worksheet.append_rows may do: append every row and report
\* it, raise with nothing appended, or append the first k rows and report k.
AppendOutcomes(rows) ==
    {[kind |-> "ok", k |-> Len(rows)], [kind |-> "error", k |-> 0]}
    \cup {[kind |-> "partial", k |-> k] : k \in 1..(Len(rows) - 1)}

\* The delay that grows linearly with the attempt.
retry_delay_linear(n) == RETRY_BASE_DELAY_S * n

\* delay = RETRY_BASE_DELAY_S * (2 ** (attempt - 1))
retry_delay(n) == RETRY_BASE_DELAY_S * 2 ^ (n - 1)

\* _process_batch from _write_with_retry on: one attempt of the retry loop;
\* a success returns, a failure sleeps and retries up to MAX_RETRIES and then
\* the batch goes to _save_to_fallback.
PB_append(outcome) ==
    /\ wpc = "append"
    /\ outcome \in AppendOutcomes(rows_to_write)
    /\ market_data' = AppendRows(market_data, rows_to_write, outcome.k)
    /\ \A r \in AllRows : market_data'[r] <= MaxCopies
    /\ nAppends' = nAppends + 1
    /\ nErrors' = IF outcome.kind = "error"
                  THEN Min(nErrors + 1, MAX_RETRIES + 1) ELSE nErrors
    /\ otherFailure' = (otherFailure \/ outcome.kind = "partial")
    /\ IF outcome.kind = "ok"
       THEN /\ ReturnFromProcessBatch
            /\ write_result' = "true"
            /\ writeLog' = Append(writeLog, proc.window_start)
            /\ UNCHANGED <<fallback_file, flushFailed, slept, nSpooled, spooledAt>>
       ELSE IF attempt < MAX_RETRIES
       THEN /\ attempt' = attempt + 1
            /\ slept' = Append(slept, retry_delay(attempt))
            /\ UNCHANGED <<fallback_file, flushFailed, wpc, cur, ctx, pending,
                           pidx, proc, rows_to_write, replay, write_result,
                           nSpooled, spooledAt, writeLog, doneLog>>
       ELSE /\ write_result' = "false"
            /\ fallback_file' = SaveToFallback(fallback_file, proc)
            /\ flushFailed' =
                  IF ctx = "flush" THEN flushFailed \cup {proc} ELSE flushFailed
            /\ nSpooled' = Min(nSpooled + 1, 2)
            /\ spooledAt' = IF ctx = "main" THEN Len(doneLog) + 1 ELSE spooledAt
            /\ ReturnFromProcessBatch
            /\ UNCHANGED <<slept, writeLog>>
    /\ UNCHANGED <<queue, running, enqueued, nEnq, store_up>>

WP_Init ==
    /\ queue = <<>>
    /\ running = TRUE
    /\ fallback_file = NoFile
    /\ market_data = [r \in AllRows |-> 0]
    /\ wpc = "while"
    /\ cur = Sentinel
    /\ ctx = "main"
    /\ pending = <<>>
    /\ pidx = 0
    /\ proc = Sentinel
    /\ rows_to_write = <<>>
    /\ attempt = 0
    /\ enqueued = {}
    /\ flushFailed = {}
    /\ replay = FALSE
    /\ nEnq = 0

WLOG_Init ==
    /\ store_up = TRUE
    /\ nAppends = 0
    /\ slept = <<>>
    /\ write_result = "none"
    /\ nErrors = 0
    /\ nSpooled = 0
    /\ otherFailure = FALSE
    /\ doneLog = <<>>
    /\ spooledAt = 0
    /\ writeLog = <<>>

\* ------------------------------------------------------- CheckpointManager

\* None, where the code holds an optional number.
Null == -1

MAX_CHECKPOINT_FILES == 3

\* Calls of save_checkpoint and files damaged from outside in one run.
MaxSaves == 4

MaxDamaged == 2

\* An ATRState as get_state exports it.
ATRState(prev_close, prev_atr, tr_history, candle_count) ==
    [prev_close |-> prev_close, prev_atr |-> prev_atr,
     tr_history |-> tr_history, candle_count |-> candle_count]

\* The empty dict.
EmptyState == <<>>

\* Files of the checkpoint directory: no file, a file json.load rejects, a
\* JSON object without last_window or atr_state, a checkpoint.
Absent == [kind |-> "absent"]

Unparsable == [kind |-> "unparsable"]

MissingFields == [kind |-> "missing_fields"]

checkpoint_data(atr_state, last_window, saved_at, sheets_write_confirmed) ==
    [kind |-> "checkpoint", last_window |-> last_window,
     atr_state |-> atr_state, saved_at |-> saved_at,
     sheets_write_confirmed |-> sheets_write_confirmed]

\* load_checkpoint's None.
NoCheckpoint == [kind |-> "none"]

\* The loop of _rotate_checkpoints over i = MAX_CHECKPOINT_FILES - 1 .. 1.
RECURSIVE ShiftBackups(_, _)
ShiftBackups(files, i) ==
    IF i = 0 THEN files
    ELSE ShiftBackups(IF files[i] # Absent
                      THEN [files EXCEPT ![i + 1] = files[i], ![i] = Absent]
                      ELSE files,
                      i - 1)

\* A rotation that copies checkpoint.json to checkpoint_1.json without
\* shifting the older copies first.
_rotate_checkpoints_no_shift(files) ==
    IF files[0] # Absent THEN [files EXCEPT ![1] = files[0]] ELSE files

_rotate_checkpoints(files) ==
    LET dropped == [files EXCEPT ![MAX_CHECKPOINT_FILES] = Absent]
        shifted == ShiftBackups(dropped, MAX_CHECKPOINT_FILES - 1)
    IN  IF shifted[0] # Absent
        THEN [shifted EXCEPT ![1] = shifted[0]]
        ELSE shifted

\* save_checkpoint: rotate, then move the temp file over checkpoint.json; when
\* the write fails the exception is re-raised after the rotation.
save_checkpoint(files, data, write_ok) ==
    LET rotated == _rotate_checkpoints(files)
    IN  IF write_ok THEN [rotated EXCEPT ![0] = data] ELSE rotated

_try_load(file) == IF file.kind = "checkpoint" THEN file ELSE NoCheckpoint

RECURSIVE LoadBackupFrom(_, _)
LoadBackupFrom(files, i) ==
    IF i > MAX_CHECKPOINT_FILES THEN NoCheckpoint
    ELSE IF _try_load(files[i]) # NoCheckpoint THEN _try_load(files[i])
    ELSE LoadBackupFrom(files, i + 1)

\* A load that reads checkpoint.json only.
load_primary_only(files) == _try_load(files[0])

load_checkpoint(files) ==
    IF _try_load(files[0]) # NoCheckpoint
    THEN _try_load(files[0])
    ELSE LoadBackupFrom(files, 1)

\* get_atr_summary of an exported state.
get_atr_summary(state) ==
    [t \in DOMAIN state |->
        [last_close |-> state[t].prev_close, last_atr |-> state[t].prev_atr,
         candle_count |-> state[t].candle_count]]

\* The rows sync_atr_state appends, as get_last_atr_state reads them back:
\* last_timestamp is not in the summary and is written as the empty cell.
AtrSheetRows(summary) ==
    [t \in DOMAIN summary |->
        [last_close |-> summary[t].last_close, last_atr |-> summary[t].last_atr,
         last_timestamp |-> Null]]

\* sync_atr_state: resize to the header, then append the rows; an exception of
\* either call is logged and swallowed.
sync_atr_state(sheet, summary, outcome) ==
    IF outcome = "resize_failed" THEN sheet
    ELSE IF outcome = "append_failed" THEN EmptyState
    ELSE AtrSheetRows(summary)

get_last_atr_state(sheet, read_ok) == IF read_ok THEN sheet ELSE EmptyState

get_last_window_from_sheets(windows, read_ok) ==
    IF ~read_ok \/ windows = {} THEN NoWindow
    ELSE CHOOSE w \in windows : \A v \in windows : v <= w

_convert_sheets_state(sheets_atr) ==
    [t \in DOMAIN sheets_atr |->
        ATRState(sheets_atr[t].last_close, sheets_atr[t].last_atr, <<>>, 0)]

\* A reconciliation that labels equal windows local.
reconcile_equal_is_local(local_checkpoint, last_window, sheets_atr) ==
    IF local_checkpoint = NoCheckpoint
    THEN IF sheets_atr # EmptyState
         THEN <<_convert_sheets_state(sheets_atr), "sheets">>
         ELSE <<EmptyState, "fresh">>
    ELSE IF last_window = NoWindow THEN <<local_checkpoint.atr_state, "local">>
    ELSE IF local_checkpoint.last_window >= last_window
    THEN <<local_checkpoint.atr_state, "local">>
    ELSE <<_convert_sheets_state(sheets_atr), "sheets">>

\* reconcile_state_on_startup, given what load_checkpoint,
\* get_last_window_from_sheets and get_last_atr_state returned.
reconcile_state_on_startup(local_checkpoint, last_window, sheets_atr) ==
    IF local_checkpoint = NoCheckpoint
    THEN IF sheets_atr # EmptyState
         THEN <<_convert_sheets_state(sheets_atr), "sheets">>
         ELSE <<EmptyState, "fresh">>
    ELSE IF last_window = NoWindow THEN <<local_checkpoint.atr_state, "local">>
    ELSE IF local_checkpoint.last_window = last_window
    THEN <<local_checkpoint.atr_state, "consistent">>
    ELSE IF local_checkpoint.last_window > last_window
    THEN <<local_checkpoint.atr_state, "local">>
    ELSE <<_convert_sheets_state(sheets_atr), "sheets">>

CK_Init ==
    /\ ckpt_files = [i \in 0..MAX_CHECKPOINT_FILES |-> Absent]
    /\ bar_windows = {}
    /\ atr_sheet = EmptyState
    /\ ckOp = "init"
    /\ loaded = NoCheckpoint
    /\ sheets_last_window = NoWindow
    /\ sheets_atr_state = EmptyState
    /\ reconState = EmptyState
    /\ reconLabel = "none"
    /\ nSaves = 0
    /\ nDamaged = 0
    /\ savedLog = <<>>

\* ---------------------------------------------------------------- ATREngine

ATR_PERIOD == 14

\* Bars the engine processes in one run.
MaxBars == 15

\* Bars with a range among them.
MaxRangeBars == 3

\* Bars processed after a fresh engine was loaded; restarts in one run.
MaxBarsAfterLoad == 2

MaxRestarts == 1

\* Bars of one instrument, in units of 0.0001: a bar with a range and a flat
\* bar. has_gap_filled tells whether the object carries the attribute
\* gap_filled, which the OHLCCandle of the tick buffer does not declare.
RangeBars ==
    {[high |-> 17, low |-> 10, close |-> 12, has_gap_filled |-> g] : g \in BOOLEAN}

AtrBars ==
    RangeBars
    \cup {[high |-> 10, low |-> 10, close |-> 10, has_gap_filled |-> g] : g \in BOOLEAN}

Abs(x) == IF x < 0 THEN -x ELSE x

RECURSIVE SeqSum(_)
SeqSum(q) == IF q = <<>> THEN 0 ELSE Head(q) + SeqSum(Tail(q))

\* round(n / d, ATR_PRECISION) of a non-negative quotient, in units of
\* 0.0001; tie_up is the side the binary float of an exact tie falls on.
RoundDiv(n, d, tie_up) ==
    LET q == n \div d
        r == n % d
    IN  IF 2 * r < d THEN q
        ELSE IF 2 * r > d THEN q + 1
        ELSE IF tie_up THEN q + 1 ELSE q

compute_tr(high, low, prev_close) ==
    IF prev_close = Null THEN high - low
    ELSE Max(high - low, Max(Abs(high - prev_close), Abs(low - prev_close)))

\* No ATRState for the instrument in ATREngine._state.
NoATRState == [present |-> FALSE]

\* The ATRState of the instrument in engine e; tr_history names the list
\* object the state holds.
EngineState(prev_close, prev_atr, tr_history, candle_count) ==
    [present |-> TRUE, prev_close |-> prev_close, prev_atr |-> prev_atr,
     tr_history |-> tr_history, candle_count |-> candle_count]

\* A compute_atr that ends the warm-up one bar early.
compute_atr_short_warmup(st, hist, tr, tie_up) ==
    LET count == st.candle_count + 1
    IN  IF st.prev_atr = Null
        THEN LET h == Append(hist, tr)
             IN  IF Len(h) < ATR_PERIOD - 1
                 THEN [state |-> [st EXCEPT !.candle_count = count],
                       hist |-> h, atr |-> Null, raised |-> FALSE]
                 ELSE LET atr == Max(RoundDiv(SeqSum(h), ATR_PERIOD, tie_up), 0)
                      IN  [state |-> [st EXCEPT !.candle_count = count, !.prev_atr = atr],
                           hist |-> <<>>, atr |-> atr, raised |-> FALSE]
        ELSE LET atr == Max(RoundDiv(st.prev_atr * (ATR_PERIOD - 1) + tr,
                                     ATR_PERIOD, tie_up), 0)
             IN  [state |-> [st EXCEPT !.candle_count = count, !.prev_atr = atr],
                  hist |-> hist, atr |-> atr, raised |-> FALSE]

\* compute_atr on the state st whose tr_history list holds hist: the new
\* state, the new content of the list and the value returned. A list longer
\* than ATR_PERIOD with no prev_atr reaches the smoothing formula with None
\* and raises TypeError.
compute_atr(st, hist, tr, tie_up) ==
    LET count == st.candle_count + 1
    IN  IF st.prev_atr = Null
        THEN LET h == Append(hist, tr)
             IN  IF Len(h) < ATR_PERIOD
                 THEN [state |-> [st EXCEPT !.candle_count = count],
                       hist |-> h, atr |-> Null, raised |-> FALSE]
                 ELSE IF Len(h) = ATR_PERIOD
                 THEN LET atr == Max(RoundDiv(SeqSum(h), ATR_PERIOD, tie_up), 0)
                      IN  [state |-> [st EXCEPT !.candle_count = count, !.prev_atr = atr],
                           hist |-> <<>>, atr |-> atr, raised |-> FALSE]
                 ELSE [state |-> [st EXCEPT !.candle_count = count],
                       hist |-> h, atr |-> Null, raised |-> TRUE]
        ELSE LET atr == Max(RoundDiv(st.prev_atr * (ATR_PERIOD - 1) + tr,
                                     ATR_PERIOD, tie_up), 0)
             IN  [state |-> [st EXCEPT !.candle_count = count, !.prev_atr = atr],
                  hist |-> hist, atr |-> atr, raised |-> FALSE]

\* process_batch of engine e for a batch holding the instrument's candle:
\* the engine's new state, the new content of its list, and the TR and ATR
\* computed; the EnrichedCandle is built, and the list returned, only when
\* the candle has the attribute gap_filled (AttributeError otherwise, after
\* the state was updated).
process_batch(e, st, lists, candle, tie_up) ==
    LET prev_close == IF st.present THEN st.prev_close ELSE Null
        tr == compute_tr(candle.high, candle.low, prev_close)
        st0 == IF st.present THEN st ELSE EngineState(Null, Null, e, 0)
        hist0 == IF st.present THEN lists[st.tr_history] ELSE <<>>
        r == compute_atr(st0, hist0, tr, tie_up)
    IN  [state |-> [r.state EXCEPT !.prev_close = candle.close],
         lists |-> [lists EXCEPT ![st0.tr_history] = r.hist],
         out |-> [tr |-> tr, atr |-> r.atr,
                  returned |-> ~r.raised /\ candle.has_gap_filled]]

\* get_state: the exported dict; its tr_history is the engine's list object.
get_state(st) == IF st.present THEN [s \in Symbols |-> st] ELSE EmptyState

\* json.dump and json.load of an exported dict: the lists are copied.
JsonState(exported, lists) ==
    [s \in DOMAIN exported |->
        ATRState(exported[s].prev_close, exported[s].prev_atr,
                 lists[exported[s].tr_history], exported[s].candle_count)]

\* load_state of a dict exported by get_state in the same process: the new
\* ATRState holds the list object of the dict.
load_state(state_dict) ==
    IF state_dict = EmptyState THEN NoATRState
    ELSE state_dict[CHOOSE s \in DOMAIN state_dict : TRUE]

\* load_state of a dict read from a checkpoint file or converted from the
\* atr_state sheet, into engine e: the new ATRState and its list.
load_state_from_file(e, state_dict, lists) ==
    IF state_dict = EmptyState
    THEN [state |-> NoATRState, lists |-> lists]
    ELSE LET d == state_dict[CHOOSE s \in DOMAIN state_dict : TRUE]
         IN  [state |-> EngineState(d.prev_close, d.prev_atr, e, d.candle_count),
              lists |-> [lists EXCEPT ![e] = d.tr_history]]

\* No output yet.
NoOut == [tr |-> Null, atr |-> Null, returned |-> FALSE]

ATR_Init ==
    /\ atr_states = [e \in 1..2 |-> NoATRState]
    /\ tr_lists = [e \in 1..2 |-> <<>>]
    /\ atr_out = [e \in 1..2 |-> NoOut]
    /\ atrOp = "init"
    /\ loaded2 = FALSE
    /\ nBars = 0
    /\ trSum = 0
    /\ fromEmpty = TRUE
    /\ nProcessed = 0
    /\ nRange = 0
    /\ nAfterLoad = 0
    /\ nRestarts = 0

\* ---------------------------------------------------------------- GapFiller

\* Calls of fill in one run.
MaxFills == 4

\* The complete list of instruments passed to fill.
expected_symbols == <<"X", "Y">>

\* The fields the OHLCCandle dataclass declares.
OHLCCandleFields == {"window_start", "open", "high", "low", "close", "tick_count"}

\* OHLCCandle(**kwargs): the dataclass __init__ raises TypeError for a keyword
\* it does not declare.
OHLCCandleAccepts(kwargs) == kwargs \subseteq OHLCCandleFields

\* The flat candle fill synthesizes, were it constructed.
FlatCandle(window_start, last_close) ==
    [window_start |-> window_start, open |-> last_close, high |-> last_close,
     low |-> last_close, close |-> last_close, tick_count |-> 0,
     gap_filled |-> TRUE]

\* The loop of fill over expected_symbols from index i: the candles dict, the
\* unfillable list, and whether constructing a flat candle raised.
RECURSIVE FillFrom(_, _, _, _, _)
FillFrom(i, cs, unfillable, last_close, window_start) ==
    IF i > Len(expected_symbols)
    THEN [candles |-> cs, unfillable |-> unfillable, raised |-> FALSE]
    ELSE LET symbol == expected_symbols[i]
         IN  IF symbol \in DOMAIN cs
             THEN FillFrom(i + 1, cs, unfillable, last_close, window_start)
             ELSE IF last_close[symbol] # Null
             THEN IF OHLCCandleAccepts(DOMAIN FlatCandle(window_start, last_close[symbol]))
                  THEN FillFrom(i + 1,
                                [s \in DOMAIN cs \cup {symbol} |->
                                    IF s = symbol
                                    THEN FlatCandle(window_start, last_close[symbol])
                                    ELSE cs[s]],
                                unfillable, last_close, window_start)
                  ELSE [candles |-> cs, unfillable |-> unfillable, raised |-> TRUE]
             ELSE FillFrom(i + 1, cs, Append(unfillable, symbol), last_close,
                           window_start)

\* GapFiller.fill: the merged candles, the unfillable symbols and the new
\* _last_close; when the constructor raised, _last_close is as before.
fill(cs, last_close, window_start) ==
    LET r == FillFrom(1, cs, <<>>, last_close, window_start)
    IN  [candles |-> r.candles, unfillable |-> r.unfillable, raised |-> r.raised,
         last_close |-> IF r.raised THEN last_close
                        ELSE [s \in DOMAIN last_close |->
                                 IF s \in DOMAIN r.candles THEN r.candles[s].close
                                 ELSE last_close[s]]]

GAP_Init ==
    /\ gap_last_close = [s \in {expected_symbols[i] : i \in 1..Len(expected_symbols)} |-> Null]
    /\ gap_input = EmptyState
    /\ gap_candles = EmptyState
    /\ gap_unfillable = <<>>
    /\ gapOp = "init"
    /\ nFills = 0

\* ---------------------------------------------------------------- ReconnectManager

\* Delays are in milliseconds.

\* The largest max_attempts a manager is constructed with.
MaxAttempts == 3

\* What the three callbacks of one attempt do: all return, or the named one
\* raises.
ReconnectOutcomes == {"ok", "refresh", "connect", "subscribe"}

\* The arguments of the constructor.
ReconnectConfigs ==
    [base_delay_s : {2000}, max_delay_s : {3000, 120000}, backoff_factor : {2},
     max_attempts : 1..MaxAttempts, jitter : BOOLEAN, alert_threshold : 1..3]

RECURSIVE Pow(_, _)
Pow(b, e) == IF e = 0 THEN 1 ELSE b * Pow(b, e - 1)

\* An entry of the record of one attempt_reconnect call: time.sleep(delay)
\* with lo <= delay <= hi, a callback call, or alert_callback(severity,
\* payload).
SleepEvent(lo, hi) ==
    [op |-> "sleep", lo |-> lo, hi |-> hi, severity |-> "", event |-> "",
     attempt |-> 0, attempts_taken |-> Null]

CallEvent(fn) ==
    [op |-> fn, lo |-> 0, hi |-> 0, severity |-> "", event |-> "",
     attempt |-> 0, attempts_taken |-> Null]

AlertEvent(severity, event, attempts, taken) ==
    [op |-> "alert", lo |-> 0, hi |-> 0, severity |-> severity, event |-> event,
     attempt |-> attempts, attempts_taken |-> taken]

\* The delay without the cap of max_delay_s.
backoff_delay_uncapped(cfg, attempts) ==
    cfg.base_delay_s * Pow(cfg.backoff_factor, attempts)

\* delay = min(base_delay_s * backoff_factor ** _attempts, max_delay_s).
backoff_delay(cfg, attempts) ==
    Min(cfg.base_delay_s * Pow(cfg.backoff_factor, attempts), cfg.max_delay_s)

\* The sleep of one pass: with jitter the delay is multiplied by a number
\* drawn from [0.75, 1.25].
backoff_sleep(cfg, attempts) ==
    LET delay == backoff_delay(cfg, attempts)
    IN  IF cfg.jitter
        THEN SleepEvent((delay * 75) \div 100, (delay * 125) \div 100)
        ELSE SleepEvent(delay, delay)

\* The callbacks called in the try block: refresh_fn, connect_fn,
\* subscribe_fn, up to the one that raises.
attempt_calls(outcome) ==
    CASE outcome = "refresh" -> <<CallEvent("refresh")>>
      [] outcome = "connect" -> <<CallEvent("refresh"), CallEvent("connect")>>
      [] OTHER -> <<CallEvent("refresh"), CallEvent("connect"), CallEvent("subscribe")>>

\* The alert of the except block, for _attempts after the increment.
failure_alerts(cfg, attempts) ==
    IF attempts = 1
    THEN <<AlertEvent("WARNING", "RECONNECT_ATTEMPT", attempts, Null)>>
    ELSE IF attempts >= cfg.alert_threshold
    THEN <<AlertEvent("CRITICAL", "RECONNECT_FAILING", attempts, Null)>>
    ELSE <<>>

\* attempt_reconnect from the while test on, with the callbacks of the i-th
\* pass behaving as outcomes[i]: _attempts at the return, the outcomes of the
\* passes made, the record of the call and the value returned.
RECURSIVE ReconnectLoop(_, _, _, _, _, _)
ReconnectLoop(cfg, attempts, outcomes, i, done, trace) ==
    IF attempts < cfg.max_attempts
    THEN LET after_sleep == Append(trace, backoff_sleep(cfg, attempts))
             n == attempts + 1
             called == after_sleep \o attempt_calls(outcomes[i])
         IN  IF outcomes[i] = "ok"
             THEN [attempts |-> 0,
                   outcomes |-> Append(done, outcomes[i]),
                   trace |-> IF n > 1
                             THEN Append(called,
                                         AlertEvent("INFO", "RECONNECT_RECOVERED", n, n))
                             ELSE called,
                   result |-> "true"]
             ELSE ReconnectLoop(cfg, n, outcomes, i + 1, Append(done, outcomes[i]),
                                called \o failure_alerts(cfg, n))
    ELSE [attempts |-> attempts,
          outcomes |-> done,
          trace |-> Append(trace,
                           AlertEvent("CRITICAL", "RECONNECT_EXHAUSTED", attempts, Null)),
          result |-> "false"]

attempt_reconnect(cfg, attempts, outcomes) ==
    ReconnectLoop(cfg, attempts, outcomes, 1, <<>>, <<>>)

\* The manager of the reconnect tests, with the constructor's default
\* alert_threshold.
RC_Init ==
    /\ rc_config = [base_delay_s |-> 2000, max_delay_s |-> 120000,
                    backoff_factor |-> 2, max_attempts |-> 3, jitter |-> FALSE,
                    alert_threshold |-> 3]
    /\ rc_attempts = 0
    /\ rc_start = 0
    /\ rc_outcomes = <<>>
    /\ rc_trace = <<>>
    /\ rc_result = "none"

\* ---------------------------------------------------------------- WSClient

HEARTBEAT_SILENCE_TIMEOUT_S == 30

\* Failed reconnects counted.
MaxReconnectFailures == 3

\* check_heartbeat at wall clock t: true before the first tick, else whether
\* the silence since the last tick is at most the timeout (the clock is in
\* minutes).
check_heartbeat(t) ==
    \/ last_tick = 0
    \/ (t - last_tick) * 60 <= HEARTBEAT_SILENCE_TIMEOUT_S

FEED_Init ==
    /\ last_tick = 0
    /\ reconnect_log = "none"
    /\ failedReconnects = 0

HB_Init ==
    /\ rc_main = "idle"
    /\ rc_feed = "idle"
    /\ ws_connected = FALSE
    /\ last_delivery = 0
    /\ reconnected_at = 0

\* ---------------------------------------------------------------- AlertManager

AlertSeverities == {"CRITICAL", "WARNING", "INFO", "ERROR"}

\* Payloads of the alerts: the events of the reconnect operator, or no
\* "event" key; the attempt.
AlertPayloads ==
    [event : {"RECONNECT_ATTEMPT", "RECONNECT_FAILING", "RECONNECT_RECOVERED",
              "RECONNECT_EXHAUSTED", ""},
     attempt : 1..MaxAttempts]

\* The parameters SchemaManager.log_event declares.
LogEventParameters == {"level", "event", "window", "details"}

\* A call of log_event with keyword arguments: the method of SchemaManager
\* raises TypeError for a keyword it does not declare; a test double takes
\* any.
LogEventAccepts(double, kwargs) == double \/ kwargs \subseteq LogEventParameters

\* The keywords fire passes to log_event.
FireKeywords == {"severity", "event_type", "details"}

\* A level that does not depend on the severity.
alert_level_info(severity) == "info"

\* Channel A: critical for CRITICAL, warning for WARNING, info otherwise.
alert_level(severity) ==
    IF severity = "CRITICAL" THEN "critical"
    ELSE IF severity = "WARNING" THEN "warning"
    ELSE "info"

\* A record on the log channel, and the call of log_event.
LogRecord(level, message, event, details) ==
    [channel |-> "log", level |-> level, message |-> message,
     event |-> event, details |-> details]

SheetCall(severity, event, details) ==
    [channel |-> "sheets", level |-> severity, message |-> "",
     event |-> event, details |-> details]

\* AlertManager.fire: the records and the call in order, whether the call
\* of log_event failed, whether fire raised; append_ok is whether the store
\* takes the row.
fire(double, severity, payload, append_ok) ==
    LET event_name == IF payload.event = "" THEN "UNKNOWN_EVENT" ELSE payload.event
        details_list == <<<<"attempt", payload.attempt>>>>
        failed == ~LogEventAccepts(double, FireKeywords) \/ ~append_ok
    IN  [trace |-> <<LogRecord(alert_level(severity), "ALERT", event_name,
                                details_list),
                     SheetCall(severity, event_name, details_list)>>
                   \o (IF failed
                       THEN <<LogRecord("error", "ALERT_SHEETS_FAIL", event_name, <<>>)>>
                       ELSE <<>>),
         failed |-> failed,
         raised |-> FALSE]

AL_Init ==
    /\ al_double = FALSE
    /\ al_severity = ""
    /\ al_trace = <<>>
    /\ al_failed = FALSE
    /\ al_raised = FALSE

\* ---------------------------------------------------------------- sessions

\* Session hours the trading calendar returns: the regular session, a
\* session that opens two minutes late, and an evening session of two
\* windows.
SessionHours ==
    {<<MARKET_OPEN, MARKET_CLOSE>>,
     <<MARKET_OPEN + 2, MARKET_CLOSE + 2>>,
     <<1095, 1095 + 2 * CANDLE_INTERVAL_MINUTES>>}

\* generate_all_windows(target_date, session_open, session_close)
session_windows(session_open, session_close) ==
    BoundaryListFrom(session_open, session_close)

\* Exchange timestamps of the ticks of a session: the minute before the
\* open, the first and the last minute of every window, the close.
SessionTickTimes(session_open, session_close) ==
    LET windows == session_windows(session_open, session_close)
    IN  {session_open - 1, session_close}
        \cup {windows[i] : i \in 1..Len(windows)}
        \cup {windows[i] + CANDLE_INTERVAL_MINUTES - 1 : i \in 1..Len(windows)}

SESS_Init ==
    /\ sess_open = MARKET_OPEN
    /\ sess_close = MARKET_CLOSE
    /\ sess_idx = 0
    /\ tick_ts = Null
    /\ tick_window = NoWindow
    /\ tick_active = NoWindow
    /\ tick_frozen = FALSE
    /\ tick_accepted = FALSE
    /\ prev_ts = Null
    /\ prev_window = NoWindow

\* Initial values of the variables of the components checked on their own.
EXT_Init ==
    /\ accepted = [s \in BufSymbols |-> <<>>]
    /\ CK_Init
    /\ ATR_Init
    /\ GAP_Init
    /\ RC_Init
    /\ FEED_Init
    /\ HB_Init
    /\ WLOG_Init
    /\ SESS_Init
    /\ AL_Init

\* --------------------------------------------------------- CandleAggregator

\* start_window
CA_start_window(window_start) ==
    /\ current_window' = window_start
    /\ agg_state' = "COLLECTING"
    /\ TB_set_active_window(window_start)

\* begin_freeze: skipped unless COLLECTING.
CA_begin_freeze ==
    IF agg_state # "COLLECTING"
    THEN UNCHANGED <<aggVars, bufVars, obsVars>>
    ELSE /\ agg_state' = "FREEZING"
         /\ UNCHANGED current_window
         /\ TB_freeze

\* finalize_window: skipped (None, {}) unless FREEZING or COLLECTING.
CA_finalize_window ==
    IF agg_state \notin {"FREEZING", "COLLECTING"}
    THEN UNCHANGED <<aggVars, bufVars, obsVars>>
    ELSE /\ agg_state' = "FROZEN"
         /\ UNCHANGED current_window
         /\ TB_snapshot_and_reset

\* transition_to_next_window
CA_transition_to_next_window(next_window) ==
    /\ agg_state' = "COLLECTING"
    /\ current_window' = next_window
    /\ TB_set_active_window(next_window)

\* ------------------------------------------------------ VolatilityHarvester

\* Longest delay, in minutes, between a tick's exchange timestamp and its
\* delivery to _on_message.
MaxLatency == 1

\* Instants of the wall clock: five minutes before the open, the first and
\* the last minute of every window, the close.
ClockTimes ==
    {MARKET_OPEN - CANDLE_INTERVAL_MINUTES, MARKET_CLOSE}
    \cup {generate_all_windows[i] : i \in 1..NumWindows}
    \cup {generate_all_windows[i] + CANDLE_INTERVAL_MINUTES - 1 : i \in 1..NumWindows}

NextClockTime(t) ==
    CHOOSE u \in ClockTimes : u > t /\ \A v \in ClockTimes : v > t => u <= v

NoPrices == [s \in Symbols |-> 0]

OR_Init ==
    /\ agg_state = "IDLE"
    /\ current_window = NoWindow
    /\ pc = "setup"
    /\ boundary_index = 0
    /\ start_idx = 0
    /\ candles = EmptyBuffer
    /\ feedOn = FALSE
    /\ tickWins = {}
    /\ firstCur = NoPrices
    /\ firstNext = NoPrices

\* _run_session's search for the first boundary not yet passed: the first
\* index with finalization_times[i] > now, the first index when there is none.
FirstBoundaryAfter(t) ==
    LET ahead == {i \in 1..Len(generate_finalization_times) :
                     generate_finalization_times[i] > t}
    IN  IF ahead = {} THEN 1
        ELSE CHOOSE i \in ahead : \A j \in ahead : i <= j

\* WSClient._on_message: the tick's window from its exchange timestamp, the
\* tick dropped when it is outside market hours, else TickBuffer.update.
WS_on_message(ticker, ltp, exchange_ts) ==
    LET window_start == assign_tick_to_window(exchange_ts)
    IN  IF window_start = NoWindow
        THEN UNCHANGED <<bufVars, obsVars, tickHist, last_tick>>
        ELSE /\ TB_update(ticker, ltp, window_start)
             /\ last_tick' = now
             /\ tickWins' = IF UpdateAccepts(window_start)
                            THEN tickWins \cup {window_start}
                            ELSE tickWins
             /\ firstCur' =
                   IF window_start = current_window /\ firstCur[ticker] = 0
                   THEN [firstCur EXCEPT ![ticker] = ltp]
                   ELSE firstCur
             /\ firstNext' =
                   IF /\ current_window # NoWindow
                      /\ window_start = current_window + CANDLE_INTERVAL_MINUTES
                      /\ firstNext[ticker] = 0
                   THEN [firstNext EXCEPT ![ticker] = ltp]
                   ELSE firstNext

\* The feed thread delivers a tick stamped at most MaxLatency ago.
OnMessage ==
    /\ feedOn
    /\ nTicks < MaxTicks
    /\ \E s \in Symbols, p \in Prices, ts \in TickTimes :
          /\ ts <= now
          /\ now - ts <= MaxLatency
          /\ WS_on_message(s, p, ts)
    /\ UNCHANGED <<aggVars, mainVars, pipeVars, writerVars, histVars, bufHist,
                   ckptVars, atrVars, gapVars, rcVars, reconnect_log,
                   failedReconnects, wlogVars, sessVars, tickVars, alertVars, hbVars>>

\* _setup, up to the registration of the feed callbacks by subscribe().
Setup ==
    /\ pc = "setup"
    /\ pc' = "run_session"
    /\ feedOn' = TRUE
    /\ UNCHANGED <<bufVars, obsVars, aggVars, boundary_index, start_idx,
                   candles, now, tickHist, pipeVars, writerVars, histVars, extVars>>

\* _run_session up to its for loop: start_idx and start_window.
RunSessionStart ==
    /\ pc = "run_session"
    /\ start_idx' = FirstBoundaryAfter(now)
    /\ boundary_index' = FirstBoundaryAfter(now)
    /\ CA_start_window(generate_all_windows[FirstBoundaryAfter(now)])
    /\ firstCur' = NoPrices
    /\ firstNext' = NoPrices
    /\ pc' = "wait"
    /\ UNCHANGED <<candles, now, feedOn, tickWins, pipeVars, writerVars,
                   histVars, extVars>>

\* The wait loop sleeping: the clock moves on while the boundary is ahead.
WaitForBoundary ==
    /\ pc = "wait"
    /\ boundary_index <= Len(generate_finalization_times)
    /\ now < generate_finalization_times[boundary_index]
    /\ now' = NextClockTime(now)
    /\ UNCHANGED <<bufVars, obsVars, aggVars, pc, boundary_index, start_idx,
                   candles, feedOn, tickHist, pipeVars, writerVars, histVars, extVars>>

\* _handle_reconnect: disconnect, then one try of refresh_session, connect,
\* subscribe; an exception is caught and logged at error level, and the
\* caller goes on.
handle_reconnect(succeeds) ==
    /\ feedOn' = succeeds
    /\ reconnect_log' = IF succeeds THEN "info" ELSE "error"
    /\ failedReconnects' = IF succeeds THEN 0
                           ELSE Min(failedReconnects + 1, MaxReconnectFailures)

\* The wait loop with the boundary ahead and the heartbeat unhealthy:
\* _handle_reconnect, then the loop goes on.
HeartbeatReconnect ==
    /\ pc = "wait"
    /\ boundary_index <= Len(generate_finalization_times)
    /\ now < generate_finalization_times[boundary_index]
    /\ ~check_heartbeat(now)
    /\ \E succeeds \in BOOLEAN : handle_reconnect(succeeds)
    /\ UNCHANGED <<bufVars, obsVars, aggVars, pc, boundary_index, start_idx,
                   candles, now, tickHist, pipeVars, writerVars, histVars,
                   bufHist, ckptVars, atrVars, gapVars, rcVars, last_tick,
                   wlogVars, sessVars, tickVars, alertVars, hbVars>>

\* _on_close: the feed closes the connection during the session; the
\* callback runs _handle_reconnect.
OnClose ==
    /\ feedOn
    /\ pc \in {"wait", "grace", "finalized"}
    /\ \E succeeds \in BOOLEAN : handle_reconnect(succeeds)
    /\ UNCHANGED <<bufVars, obsVars, aggVars, pc, boundary_index, start_idx,
                   candles, now, tickHist, pipeVars, writerVars, histVars,
                   bufHist, ckptVars, atrVars, gapVars, rcVars, last_tick,
                   wlogVars, sessVars, tickVars, alertVars, hbVars>>

\* _finalize_at_boundary step 1, once the boundary is reached: begin_freeze.
BeginFreeze ==
    /\ pc = "wait"
    /\ boundary_index <= Len(generate_finalization_times)
    /\ now >= generate_finalization_times[boundary_index]
    /\ CA_begin_freeze
    /\ pc' = "grace"
    /\ UNCHANGED <<boundary_index, start_idx, candles, now, feedOn, tickHist,
                   pipeVars, writerVars, histVars, extVars>>

\* _finalize_at_boundary step 3, after the sleep of WINDOW_FREEZE_MS.
FinalizeWindow ==
    /\ pc = "grace"
    /\ CA_finalize_window
    /\ candles' = IF agg_state \in {"FREEZING", "COLLECTING"}
                  THEN buffer ELSE EmptyBuffer
    /\ tickWins' = IF agg_state \in {"FREEZING", "COLLECTING"}
                   THEN {} ELSE tickWins
    /\ pc' = "finalized"
    /\ UNCHANGED <<boundary_index, start_idx, now, feedOn, firstCur, firstNext,
                   pipeVars, writerVars, histVars, extVars>>

\* ATREngine.process_batch: it reads candle.gap_filled, a field OHLCCandle
\* does not have, so it raises for every candle it is given.
ProcessBatchRaises(batch) == batch # EmptyBuffer

\* _finalize_at_boundary after finalize_window.  Nothing to finalize: the
\* transition to the next window, if there is one, and the next boundary.
\* Otherwise step 4, process_batch, raises; no step of _finalize_at_boundary
\* or _run_session catches, and run() goes to _cleanup.
AfterFinalize ==
    /\ pc = "finalized"
    /\ IF candles = EmptyBuffer
       THEN /\ IF boundary_index + 1 <= Len(generate_all_windows)
               THEN /\ CA_transition_to_next_window(
                          generate_all_windows[boundary_index + 1])
                    /\ firstCur' = firstNext
                    /\ firstNext' = NoPrices
               ELSE UNCHANGED <<aggVars, bufVars, obsVars, firstCur, firstNext>>
            /\ boundary_index' = boundary_index + 1
            /\ pc' = "wait"
       ELSE /\ ProcessBatchRaises(candles)
            /\ pc' = "cleanup"
            /\ UNCHANGED <<aggVars, bufVars, obsVars, firstCur, firstNext,
                           boundary_index>>
    /\ UNCHANGED <<start_idx, candles, now, feedOn, tickWins, pipeVars,
                   writerVars, histVars, extVars>>

\* _run_session after the last boundary: SESSION_COMPLETE.
SessionComplete ==
    /\ pc = "wait"
    /\ boundary_index > Len(generate_finalization_times)
    /\ pc' = "cleanup"
    /\ UNCHANGED <<bufVars, obsVars, aggVars, boundary_index, start_idx,
                   candles, now, feedOn, tickHist, pipeVars, writerVars,
                   histVars, extVars>>

\* _cleanup: disconnect the feed, stop the writer.
Cleanup ==
    /\ pc = "cleanup"
    /\ feedOn' = FALSE
    /\ WP_stop_consumer
    /\ pc' = "done"
    /\ UNCHANGED <<bufVars, obsVars, aggVars, boundary_index, start_idx,
                   candles, now, tickHist, extVars>>

Init == TB_Init /\ WP_Init /\ OR_Init /\ EXT_Init /\ now \in ClockTimes

Next ==
    \/ Setup
    \/ RunSessionStart
    \/ OnMessage
    \/ HeartbeatReconnect
    \/ OnClose
    \/ WaitForBoundary
    \/ BeginFreeze
    \/ FinalizeWindow
    \/ AfterFinalize
    \/ SessionComplete
    \/ Cleanup

Spec == Init /\ [][Next]_vars

BufInit == TB_Init /\ WP_Init /\ OR_Init /\ EXT_Init /\ now = MARKET_OPEN

\* ------------------------------------------------------ orchestrator claims

\* C7: boundary cycles are isolated. A failure in a sub-step of one boundary
\* cycle (ATR computation, enqueue, checkpoint save, ATR-table sync) prevents
\* neither the transition to the next window nor the processing of any later
\* boundary: the session reaches its cleanup only when every boundary of the
\* schedule has been processed.
C7_BoundaryCyclesIsolated ==
    pc \in {"cleanup", "done"}
        => boundary_index > Len(generate_finalization_times)

\* C8: no cross-window contamination. Every bar of the snapshot finalized
\* for window w has window_start = w and is built only from ticks assigned
\* to w, the first window of a run included.
C8_NoCrossWindowContamination ==
    [][(pc = "grace" /\ pc' = "finalized")
          => /\ \A s \in DOMAIN candles' :
                   candles'[s].window_start = current_window
             /\ tickWins \subseteq {current_window}]_vars

\* C9: boundary crossing. The first tick of window w+1 delivered at or after
\* the boundary between w and w+1 becomes the open of the w+1 bar (as the
\* tick stamped 09:20:00.000 opens the 09:20 bar).
C9_FirstTickOpensNextBar ==
    (pc = "finalized" /\ boundary_index > start_idx)
        => \A s \in Symbols :
              firstCur[s] # 0
                  => s \in DOMAIN candles /\ candles[s].open = firstCur[s]

\* C10: during the freeze grace period (after begin_freeze, before
\* finalize_window) a tick whose exchange timestamp falls in the just-closed
\* window is admitted into that window's bar.
C10_GraceAdmitsInFlightTick ==
    [][(pc = "grace" /\ agg_state = "FREEZING" /\ lastOp' = "update"
            /\ lastWin' = current_window)
          => (lastRet' = TRUE /\ buffer' # buffer)]_vars

\* C19: boundary step order. At every boundary, after the freeze, the grace
\* sleep and the finalize, the orchestrator goes on to gap-fill, ATR and
\* enqueue (then checkpoint, ATR-table sync and the transition): when
\* finalize_window returned bars for window w, the cycle puts a batch for w
\* on the write queue and the main thread waits for the next boundary.
C19_BoundaryStepOrder ==
    [][(pc = "finalized" /\ pc' # "finalized" /\ candles # EmptyBuffer)
          => /\ pc' = "wait"
             /\ Len(queue') = Len(queue) + 1
             /\ queue'[Len(queue')].window_start = current_window]_vars

\* C23: reconnect exhaustion. When the feed closes or goes silent during the
\* session the orchestrator runs the reconnect operator, and once every
\* attempt of the run has failed a CRITICAL alert has been fired and the
\* session is aborted: the scheduler begins no further boundary cycle.
C23_ReconnectExhaustedAborts ==
    [][failedReconnects = MaxReconnectFailures
          => /\ reconnect_log = "critical"
             /\ ~(pc = "wait" /\ pc' = "grace")]_vars

\* ------------------------------------------- the TickBuffer under any caller

BufUpdate ==
    /\ nTicks < MaxTicks
    /\ \E s \in BufSymbols, p \in BufPrices, i \in 1..NumWindows :
          /\ TB_update(s, p, generate_all_windows[i])
          /\ accepted' = IF lastRet'
                         THEN [accepted EXCEPT ![s] = Append(@, p)]
                         ELSE accepted
    /\ UNCHANGED <<pipeVars, writerVars, histVars, orchVars, compVars>>

BufSetActiveWindow ==
    /\ \E i \in 1..NumWindows : TB_set_active_window(generate_all_windows[i])
    /\ UNCHANGED <<pipeVars, writerVars, histVars, orchVars, accepted, compVars>>

BufFreeze ==
    /\ TB_freeze
    /\ UNCHANGED <<pipeVars, writerVars, histVars, orchVars, accepted, compVars>>

BufSnapshot ==
    /\ TB_snapshot_and_reset
    /\ accepted' = [s \in BufSymbols |-> <<>>]
    /\ UNCHANGED <<pipeVars, writerVars, histVars, orchVars, compVars>>

NextBuf == BufUpdate \/ BufSetActiveWindow \/ BufFreeze \/ BufSnapshot

SpecBuf == BufInit /\ [][NextBuf]_vars

\* C3: freeze barrier. After freeze() and until the next set_active_window,
\* every update (any symbol, price and window_start, with or without a
\* snapshot_and_reset in between) returns false and leaves the accumulator
\* as it was.
C3_FreezeBarrier ==
    [][(barrier # "open" /\ lastOp' = "update")
          => (lastRet' = FALSE /\ buffer' = buffer)]_vars

\* C3 witness: an update rejected after freeze() and a snapshot_and_reset,
\* with the accumulator still empty.
C3_Witness ==
    /\ barrier = "frozen_snapshot"
    /\ lastOp = "update"
    /\ lastRet = FALSE
    /\ late_tick_count >= 1
    /\ buffer = EmptyBuffer

\* A bar satisfies the OHLC invariant.
OHLCValid(bar) ==
    /\ bar.low <= Min(bar.open, bar.close)
    /\ Max(bar.open, bar.close) <= bar.high
    /\ bar.tick_count >= 1

\* C11: OHLC invariant. After any sequence of update, freeze,
\* snapshot_and_reset and set_active_window calls, every bar held in the tick
\* buffer and every bar returned by snapshot_and_reset has
\* low <= min(open, close), max(open, close) <= high and tick_count >= 1.
C11_OHLCInvariant ==
    /\ \A s \in DOMAIN buffer : OHLCValid(buffer[s])
    /\ \A s \in DOMAIN lastSnap : OHLCValid(lastSnap[s])

\* C11 witness: snapshot_and_reset returned a bar of several ticks whose low
\* is below its high.
C11_Witness ==
    /\ lastOp = "snapshot_and_reset"
    /\ \E s \in DOMAIN lastSnap :
          lastSnap[s].low < lastSnap[s].high /\ lastSnap[s].tick_count >= 2

RECURSIVE SeqMax(_)
SeqMax(q) == IF Len(q) = 1 THEN q[1] ELSE Max(q[1], SeqMax(Tail(q)))

RECURSIVE SeqMin(_)
SeqMin(q) == IF Len(q) = 1 THEN q[1] ELSE Min(q[1], SeqMin(Tail(q)))

\* A bar is the aggregation of a non-empty sequence of prices.
AggregatesTo(bar, q) ==
    /\ bar.open = q[1]
    /\ bar.close = q[Len(q)]
    /\ bar.high = SeqMax(q)
    /\ bar.low = SeqMin(q)
    /\ bar.tick_count = Len(q)

\* C12: under any interleaving of update with freeze, snapshot_and_reset and
\* set_active_window, each snapshot holds a bar for exactly the symbols with
\* an accepted update since the previous snapshot, and the bar is the
\* aggregation of exactly those updates (open the first accepted price,
\* close the latest, high and low the extremes, tick_count their number);
\* the accumulator is empty afterwards, so no accepted tick is counted twice.
C12_SnapshotIsAggregation ==
    [][lastOp' = "snapshot_and_reset"
          => /\ DOMAIN lastSnap' = {s \in BufSymbols : accepted[s] # <<>>}
             /\ \A s \in DOMAIN lastSnap' : AggregatesTo(lastSnap'[s], accepted[s])
             /\ buffer' = EmptyBuffer]_vars

\* C12 witness: a snapshot returned bars for two symbols, one of them built
\* from at least three accepted updates with differing prices.
C12_Witness ==
    /\ lastOp = "snapshot_and_reset"
    /\ Cardinality(DOMAIN lastSnap) = 2
    /\ \E s \in DOMAIN lastSnap :
          lastSnap[s].tick_count >= 3 /\ lastSnap[s].low < lastSnap[s].high

\* ------------------------------------ the write pipeline under any producer

WriterInit == TB_Init /\ WP_Init /\ OR_Init /\ EXT_Init /\ now = MARKET_OPEN

\* The producer enqueues the batch of a window (a replay enqueues it again).
Enqueue ==
    /\ running
    /\ nEnq < MaxEnqueues
    /\ \E w \in BatchWindows : WP_enqueue(w)
    /\ UNCHANGED <<bufVars, obsVars, orchVars, extVars>>

StopConsumer ==
    /\ running
    /\ WP_stop_consumer
    /\ UNCHANGED <<bufVars, obsVars, orchVars, extVars>>

ConsumerWhile == CL_while /\ UNCHANGED <<bufVars, obsVars, orchVars, extVars>>

ConsumerGetEmpty == CL_get_empty /\ UNCHANGED <<bufVars, obsVars, orchVars, extVars>>

ConsumerGet == CL_get /\ UNCHANGED <<bufVars, obsVars, orchVars, extVars>>

FlushFallback == FF_for /\ UNCHANGED <<bufVars, obsVars, orchVars, extVars>>

\* The store serves the read of the existing ids exactly when it is up.
ProcessBatchDedup ==
    /\ PB_dedup(store_up)
    /\ UNCHANGED <<bufVars, obsVars, orchVars, bufHist, ckptVars, atrVars,
                   gapVars, rcVars, feedVars, sessVars, tickVars, alertVars, hbVars>>

\* The store appends every row and reports it exactly when it is up.
ProcessBatchAppend ==
    /\ \E outcome \in AppendOutcomes(rows_to_write) :
          /\ store_up <=> outcome.kind = "ok"
          /\ PB_append(outcome)
    /\ UNCHANGED <<bufVars, obsVars, orchVars, bufHist, ckptVars, atrVars,
                   gapVars, rcVars, feedVars, sessVars, tickVars, alertVars, hbVars>>

\* The store goes down or comes back.
StoreFlip ==
    /\ store_up' = ~store_up
    /\ UNCHANGED <<coreVars, ckptVars, atrVars, gapVars, rcVars, feedVars,
                   retryVars, storeHist, sessVars, tickVars, alertVars, hbVars>>

NextWriter ==
    \/ Enqueue
    \/ StopConsumer
    \/ ConsumerWhile
    \/ ConsumerGetEmpty
    \/ ConsumerGet
    \/ FlushFallback
    \/ ProcessBatchDedup
    \/ ProcessBatchAppend
    \/ StoreFlip

SpecWriter == WriterInit /\ [][NextWriter]_vars

\* ---------------------------------------------------- write pipeline claims

InQueue(batch) == \E i \in 1..Len(queue) : queue[i] = batch

\* The writer holds a batch: the one it dequeued, the one in _process_batch,
\* or one of the pending list of a running drain.
InWriter(batch) ==
    \/ cur = batch
    \/ proc = batch
    \/ batch \in SeqToSet(pending)

InSpool(batch) ==
    fallback_file.exists /\ batch \in SeqToSet(fallback_file.data)

\* C1: no bar-level loss. Whatever the store's append failures, every batch
\* that has been enqueued is at every later moment in the write queue, in
\* the writer, in the store (all of its row ids in market_data) or in the
\* fallback spool file.
C1_NoBarLevelLoss ==
    \A batch \in enqueued :
        InQueue(batch) \/ InWriter(batch) \/ InStore(batch) \/ InSpool(batch)

\* The step on which _flush_fallback returns after its for loop.
DrainReturns ==
    /\ wpc = "flush"
    /\ pidx > Len(pending)
    /\ wpc' = "dedup"

\* C2: when a drain of the fallback spool returns, the spool file holds
\* exactly the batches whose append failed again on all retries in that
\* drain: each of them is still in the file, and no batch that succeeded is.
C2_DrainKeepsFailedBatches ==
    [][DrainReturns =>
          (IF fallback_file'.exists
           THEN SeqToSet(fallback_file'.data)
           ELSE {}) = flushFailed]_vars

\* C4: in every reachable state of the store no row id occurs in more than
\* one market_data row (across retries after a reported partial write or an
\* append error, a failed existing-id query, spool replays and replays of an
\* enqueued batch).
C4_NoDuplicateRowId ==
    \A r \in AllRows : market_data[r] <= 1

\* C5: dedup idempotence. A call of _process_batch for a batch whose rows
\* are all in market_data when the call begins adds no row to market_data.
C5_DedupIdempotence ==
    [][replay => market_data' = market_data]_vars

\* C6: stopping the writer drains the queue. When the writer has exited, no
\* batch enqueued before stop_consumer is left unprocessed in the queue.
C6_StopDrainsQueue ==
    wpc = "exited" => \A i \in 1..Len(queue) : queue[i] = Sentinel


\* One outage of the store: every append of the first batch the consumer
\* loop received raised, so the batch was spooled; no other append and no
\* read failed; and the loop has finished the batch it received next.
OutageAndRecovery ==
    /\ nErrors = MAX_RETRIES
    /\ nSpooled = 1
    /\ ~otherFailure
    /\ spooledAt = 1
    /\ Len(doneLog) = 2

SpecWriterLive ==
    /\ WriterInit
    /\ [][NextWriter]_vars
    /\ WF_vars(ConsumerWhile)
    /\ WF_vars(ConsumerGetEmpty)
    /\ WF_vars(ConsumerGet)
    /\ WF_vars(FlushFallback)
    /\ WF_vars(ProcessBatchDedup)
    /\ WF_vars(ProcessBatchAppend)

\* The batches the producer can enqueue.
AllBatches == {WriteBatch(w) : w \in BatchWindows}

\* C25: spool liveness. The writer re-flushes the fallback spool
\* periodically: from any moment at which a batch is in the spool and from
\* which the store stays available, the batch is eventually in the store,
\* also when no further batch is enqueued.
C25_SpoolEventuallyFlushed ==
    \A batch \in AllBatches :
        []((InSpool(batch) /\ []store_up) => <>InStore(batch))

CkWindows == {generate_all_windows[1], generate_all_windows[2]}

\* The ATR state exported after the bar of a window.
CkStateAt(w) ==
    IF w = generate_all_windows[1]
    THEN [s \in Symbols |-> ATRState(12, Null, <<3>>, 1)]
    ELSE [s \in Symbols |-> ATRState(12, 3, <<>>, 14)]

CkInit == TB_Init /\ WP_Init /\ OR_Init /\ EXT_Init /\ now = MARKET_OPEN

\* What a call leaves of the results of the calls before it.
CkForget ==
    /\ loaded' = NoCheckpoint
    /\ sheets_last_window' = NoWindow
    /\ sheets_atr_state' = EmptyState
    /\ reconState' = EmptyState
    /\ reconLabel' = "none"

\* save_checkpoint(atr_state, last_window, sheets_write_confirmed); saved_at
\* is the time of the call.
CK_save_checkpoint(atr_state, last_window, sheets_write_confirmed, write_ok) ==
    /\ ckpt_files' = save_checkpoint(ckpt_files,
                         checkpoint_data(atr_state, last_window, nSaves + 1,
                                         sheets_write_confirmed),
                         write_ok)
    /\ ckOp' = IF write_ok THEN "save_checkpoint" ELSE "save_raised"
    /\ nSaves' = nSaves + 1
    /\ CkForget
    /\ savedLog' = IF ckOp' = "save_checkpoint" THEN Append(savedLog, nSaves + 1)
                   ELSE savedLog
    /\ UNCHANGED <<bar_windows, atr_sheet, nDamaged, coreVars, atrVars, gapVars, netVars>>

\* A file of the directory is deleted, truncated or overwritten from outside.
CK_damage(i, file) ==
    /\ ckpt_files[i].kind = "checkpoint"
    /\ ckpt_files' = [ckpt_files EXCEPT ![i] = file]
    /\ nDamaged' = nDamaged + 1
    /\ ckOp' = "damage"
    /\ CkForget
    /\ UNCHANGED <<bar_windows, atr_sheet, nSaves, savedLog, coreVars, atrVars, gapVars, netVars>>

CkptSave ==
    /\ nSaves < MaxSaves
    /\ \E i \in 1..2, write_ok \in BOOLEAN :
          CK_save_checkpoint(CkStateAt(generate_all_windows[i]),
                             generate_all_windows[i], i = 2, write_ok)

CkptDamage ==
    /\ nDamaged < MaxDamaged
    /\ \E i \in 0..MAX_CHECKPOINT_FILES, file \in {Absent, Unparsable, MissingFields} :
          CK_damage(i, file)

CkptLoad ==
    /\ loaded' = load_checkpoint(ckpt_files)
    /\ ckOp' = "load_checkpoint"
    /\ UNCHANGED <<sheets_last_window, sheets_atr_state, reconState, reconLabel>>
    /\ UNCHANGED <<ckpt_files, bar_windows, atr_sheet, nSaves, nDamaged, savedLog, coreVars, atrVars, gapVars, netVars>>

NextCkpt == CkptSave \/ CkptDamage \/ CkptLoad

SpecCkpt == CkInit /\ [][NextCkpt]_vars

\* ------------------------------------ startup reconciliation under any caller

\* Calls of save_checkpoint and damaged files before a restart.
MaxReconSaves == 2

MaxReconDamaged == 1

ReconSave ==
    /\ nSaves < MaxReconSaves
    /\ \E w \in CkWindows, flag \in BOOLEAN, write_ok \in BOOLEAN :
          CK_save_checkpoint(CkStateAt(w), w, flag, write_ok)

ReconDamage ==
    /\ nDamaged < MaxReconDamaged
    /\ \E i \in 0..MAX_CHECKPOINT_FILES, file \in {Absent, Unparsable, MissingFields} :
          CK_damage(i, file)

\* The writer appends the rows of a window to market_data.
ReconStoreAppend ==
    /\ \E w \in CkWindows :
          /\ w \notin bar_windows
          /\ bar_windows' = bar_windows \cup {w}
    /\ ckOp' = "append"
    /\ CkForget
    /\ UNCHANGED <<ckpt_files, atr_sheet, nSaves, nDamaged, savedLog, coreVars, atrVars, gapVars, netVars>>

ReconSyncAtrState ==
    /\ \E w \in CkWindows, outcome \in {"ok", "append_failed", "resize_failed"} :
          /\ atr_sheet' = sync_atr_state(atr_sheet, get_atr_summary(CkStateAt(w)), outcome)
          /\ atr_sheet' # atr_sheet
    /\ ckOp' = "sync_atr_state"
    /\ CkForget
    /\ UNCHANGED <<ckpt_files, bar_windows, nSaves, nDamaged, savedLog, coreVars, atrVars, gapVars, netVars>>

\* reconcile_state_on_startup; the two reads of the store succeed or fail.
ReconReconcile ==
    /\ \E window_read_ok \in BOOLEAN, atr_read_ok \in BOOLEAN :
          LET local_checkpoint == load_checkpoint(ckpt_files)
              last_window == IF local_checkpoint = NoCheckpoint THEN NoWindow
                             ELSE get_last_window_from_sheets(bar_windows, window_read_ok)
              sheets_atr == get_last_atr_state(atr_sheet, atr_read_ok)
              result == reconcile_state_on_startup(local_checkpoint, last_window, sheets_atr)
          IN  /\ loaded' = local_checkpoint
              /\ sheets_last_window' = last_window
              /\ sheets_atr_state' = sheets_atr
              /\ reconState' = result[1]
              /\ reconLabel' = result[2]
              /\ ckOp' = IF window_read_ok /\ atr_read_ok
                         THEN "reconcile" ELSE "reconcile_read_failed"
    /\ UNCHANGED <<ckpt_files, bar_windows, atr_sheet, nSaves, nDamaged, savedLog, coreVars, atrVars, gapVars, netVars>>

NextRecon ==
    \/ ReconSave
    \/ ReconDamage
    \/ ReconStoreAppend
    \/ ReconSyncAtrState
    \/ ReconReconcile

SpecRecon == CkInit /\ [][NextRecon]_vars

\* The store's max(timestamp) in the bar table, NoWindow when it has no rows.
StoreLastWindow == get_last_window_from_sheets(bar_windows, TRUE)

\* The outcome the reconciliation table gives for a local checkpoint and the
\* store.
ReconcileTable(local_checkpoint) ==
    IF local_checkpoint = NoCheckpoint /\ StoreLastWindow = NoWindow
    THEN <<EmptyState, "fresh">>
    ELSE IF local_checkpoint = NoCheckpoint
    THEN <<_convert_sheets_state(atr_sheet), "sheets">>
    ELSE IF StoreLastWindow = NoWindow
    THEN <<local_checkpoint.atr_state, "local">>
    ELSE IF local_checkpoint.last_window = StoreLastWindow
    THEN <<local_checkpoint.atr_state, "consistent">>
    ELSE IF local_checkpoint.last_window > StoreLastWindow
    THEN <<local_checkpoint.atr_state, "local">>
    ELSE <<_convert_sheets_state(atr_sheet), "sheets">>

\* C13: reconciliation table. Whenever reconcile_state_on_startup has read the
\* store without error, its result is the one the table gives for the local
\* checkpoint's last_window and the max(timestamp) of the bar table: fresh
\* with the empty state when both are absent, the store's ATR-state table
\* and sheets when only the store has rows, the local state and local when
\* only the checkpoint exists, consistent when both are equal, local when the
\* checkpoint is later, sheets when it is earlier, whatever
\* sheets_write_confirmed is.
C13_ReconcileTable ==
    ckOp = "reconcile"
        => <<reconState, reconLabel>> = ReconcileTable(load_checkpoint(ckpt_files))


\* A restart after an unconfirmed write: reconcile_state_on_startup has run,
\* checkpoint.json is the checkpoint saved for window w with
\* sheets_write_confirmed = false, and the rows of w, the last window the
\* process handled, are in market_data.
UnconfirmedRestart ==
    /\ ckOp = "reconcile"
    /\ loaded.kind = "checkpoint"
    /\ loaded = ckpt_files[0]
    /\ ~loaded.sheets_write_confirmed
    /\ loaded.last_window \in bar_windows
    /\ StoreLastWindow = loaded.last_window

IntactFiles == {i \in 0..MAX_CHECKPOINT_FILES : ckpt_files[i].kind = "checkpoint"}

\* load_checkpoint returned the first intact file in the order
\* checkpoint.json, checkpoint_1.json, ..., or None when there is none.
LoadedFirstIntact ==
    IF IntactFiles = {} THEN loaded = NoCheckpoint
    ELSE loaded = ckpt_files[CHOOSE i \in IntactFiles : \A j \in IntactFiles : i <= j]

\* load_checkpoint returned the intact checkpoint that was saved last.
LoadedMostRecent ==
    IntactFiles # {}
        => /\ loaded \in {ckpt_files[i] : i \in IntactFiles}
           /\ \A i \in IntactFiles : ckpt_files[i].saved_at <= loaded.saved_at

AtrInit == TB_Init /\ WP_Init /\ OR_Init /\ EXT_Init /\ now = MARKET_OPEN

\* process_batch of the running engine for the instrument's next bar.
AtrProcess ==
    /\ ~loaded2
    /\ nProcessed < MaxBars
    /\ \E candle \in AtrBars, tie_up \in BOOLEAN :
          LET r == process_batch(1, atr_states[1], tr_lists, candle, tie_up)
          IN  /\ atr_states' = [atr_states EXCEPT ![1] = r.state]
              /\ tr_lists' = r.lists
              /\ atr_out' = [atr_out EXCEPT ![1] = r.out]
              /\ trSum' = IF nBars < ATR_PERIOD THEN trSum + r.out.tr ELSE trSum
              /\ candle \in RangeBars => nRange < MaxRangeBars
              /\ nRange' = IF candle \in RangeBars THEN nRange + 1 ELSE nRange
    /\ nBars' = nBars + 1
    /\ nProcessed' = nProcessed + 1
    /\ atrOp' = "process_batch"
    /\ UNCHANGED <<loaded2, fromEmpty, nAfterLoad, nRestarts, coreVars, ckptVars, gapVars, netVars>>

\* fresh.load_state(engine.get_state()) in the same process.
AtrExportLoad ==
    /\ ~loaded2
    /\ nRestarts = 0
    /\ atr_states[1].present
    /\ atr_states' = [atr_states EXCEPT ![2] = load_state(get_state(atr_states[1]))]
    /\ loaded2' = TRUE
    /\ atrOp' = "load_state"
    /\ UNCHANGED <<tr_lists, atr_out, nBars, trSum, fromEmpty, nProcessed,
                   nRange, nAfterLoad, nRestarts, coreVars, ckptVars, gapVars, netVars>>

\* The same bar, one that carries gap_filled, is processed by the original
\* engine and by the loaded one.
AtrProcessBoth ==
    /\ loaded2
    /\ nProcessed < MaxBars
    /\ nAfterLoad < MaxBarsAfterLoad
    /\ \E candle \in {c \in AtrBars : c.has_gap_filled}, tie_up \in BOOLEAN :
          LET r1 == process_batch(1, atr_states[1], tr_lists, candle, tie_up)
              r2 == process_batch(2, atr_states[2], r1.lists, candle, tie_up)
          IN  /\ atr_states' = [e \in 1..2 |-> IF e = 1 THEN r1.state ELSE r2.state]
              /\ tr_lists' = r2.lists
              /\ atr_out' = [e \in 1..2 |-> IF e = 1 THEN r1.out ELSE r2.out]
              /\ candle \in RangeBars => nRange < MaxRangeBars
              /\ nRange' = IF candle \in RangeBars THEN nRange + 1 ELSE nRange
    /\ nProcessed' = nProcessed + 1
    /\ nAfterLoad' = nAfterLoad + 1
    /\ atrOp' = "process_both"
    /\ UNCHANGED <<loaded2, nBars, trSum, fromEmpty, nRestarts, coreVars, ckptVars, gapVars, netVars>>

\* The process stops after a boundary and starts again: the checkpoint of the
\* boundary is there or lost, market_data ends before, at or after the
\* checkpoint's window or is empty, the atr_state sheet was synced or is
\* empty; reconcile_state_on_startup decides and load_state installs a
\* non-empty result in the new engine.
AtrRestart ==
    /\ ~loaded2
    /\ nProcessed > 0
    /\ nRestarts < MaxRestarts
    /\ nRestarts' = nRestarts + 1
    /\ \E have_local \in BOOLEAN, synced \in BOOLEAN,
          last_window \in {NoWindow} \cup {generate_all_windows[i] : i \in 1..3} :
          LET exported == JsonState(get_state(atr_states[1]), tr_lists)
              local_checkpoint ==
                  IF have_local
                  THEN checkpoint_data(exported, generate_all_windows[2], 0, FALSE)
                  ELSE NoCheckpoint
              sheets_atr == IF synced THEN AtrSheetRows(get_atr_summary(exported))
                            ELSE EmptyState
              result == reconcile_state_on_startup(local_checkpoint, last_window, sheets_atr)
              installed == load_state_from_file(1, result[1],
                                                [tr_lists EXCEPT ![1] = <<>>])
              kept == result[2] \in {"local", "consistent"}
          IN  /\ atr_states' = [atr_states EXCEPT ![1] = installed.state]
              /\ tr_lists' = installed.lists
              /\ fromEmpty' = IF kept THEN fromEmpty ELSE result[1] = EmptyState
              /\ nBars' = IF kept THEN nBars ELSE 0
              /\ trSum' = IF kept THEN trSum ELSE 0
              /\ atrOp' = result[2]
    /\ UNCHANGED <<atr_out, loaded2, nProcessed, nRange, nAfterLoad, coreVars, ckptVars, gapVars, netVars>>

NextAtr == AtrProcess \/ AtrExportLoad \/ AtrProcessBoth \/ AtrRestart

SpecAtr == AtrInit /\ [][NextAtr]_vars


\* C15: ATR state invariant. In every state of the running engine, after any
\* sequence of process_batch calls and after a startup reconciliation
\* installed the state of the local checkpoint or of the store, prev_atr is
\* null exactly when candle_count < 14, tr_history is empty when prev_atr is
\* set and otherwise holds one TR for each bar counted.
C15_AtrStateInvariant ==
    (~loaded2 /\ atr_states[1].present)
        => LET st == atr_states[1]
               hist == tr_lists[st.tr_history]
           IN  /\ (st.prev_atr = Null) <=> (st.candle_count < ATR_PERIOD)
               /\ st.prev_atr # Null => hist = <<>>
               /\ st.prev_atr = Null => Len(hist) = st.candle_count


\* a is a multiple of 0.0001 nearest to num / d.
Nearest(a, num, d) == 2 * Abs(d * a - num) <= d

StateValue(e) ==
    IF atr_states[e].present
    THEN ATRState(atr_states[e].prev_close, atr_states[e].prev_atr,
                  tr_lists[atr_states[e].tr_history], atr_states[e].candle_count)
    ELSE NoATRState

\* C16: ATR state round-trip. After the state exported by get_state was
\* loaded into a fresh engine, processing the same bars with the fresh engine
\* and with the original one gives the same TR and ATR outputs and the same
\* final state, also when the export was taken during the warm-up.
C16_StateRoundTrip ==
    (loaded2 /\ atrOp = "process_both")
        => /\ atr_out[1] = atr_out[2]
           /\ StateValue(1) = StateValue(2)


\* -------------------------------------------- the GapFiller under any caller

GapInit == TB_Init /\ WP_Init /\ OR_Init /\ EXT_Init /\ now = MARKET_OPEN

\* Snapshots of one window: each expected symbol is silent or has one of two
\* bars.
GapSnapshots(window_start) ==
    LET bars == {OHLCCandle(window_start, 1001, 1002, 1001, 1002, 2),
                 OHLCCandle(window_start, 1003, 1003, 1003, 1003, 1)}
        syms == {expected_symbols[i] : i \in 1..Len(expected_symbols)}
    IN  UNION {[present -> bars] : present \in SUBSET syms}

GapFill ==
    /\ nFills < MaxFills
    /\ \E cs \in GapSnapshots(generate_all_windows[(nFills % NumWindows) + 1]) :
          LET r == fill(cs, gap_last_close, generate_all_windows[(nFills % NumWindows) + 1])
          IN  /\ gap_input' = cs
              /\ gap_candles' = r.candles
              /\ gap_unfillable' = r.unfillable
              /\ gap_last_close' = r.last_close
              /\ gapOp' = IF r.raised THEN "raised" ELSE "fill"
    /\ nFills' = nFills + 1
    /\ UNCHANGED <<coreVars, ckptVars, atrVars, netVars>>

NextGap == GapFill

SpecGap == GapInit /\ [][NextGap]_vars

\* The symbols in a list.
Range(q) == {q[i] : i \in 1..Len(q)}

\* C20: gap fill. After every call of fill: each expected symbol absent from
\* the snapshot that had a recorded last close c has a bar with
\* open = high = low = close = c, tick_count = 0 and gap_filled = true in the
\* merged snapshot; each absent one without a recorded last close is in the
\* unfillable list and has no bar; the bars of the snapshot are unchanged;
\* and last_close holds the close of every bar of the merged snapshot.
C20_GapFill ==
    [][\A s \in Range(expected_symbols) :
          /\ (s \notin DOMAIN gap_input' /\ gap_last_close[s] # Null)
                => /\ gapOp' = "fill"
                   /\ s \in DOMAIN gap_candles'
                   /\ gap_candles'[s] =
                          FlatCandle(gap_candles'[s].window_start, gap_last_close[s])
                   /\ gap_last_close'[s] = gap_last_close[s]
          /\ (s \notin DOMAIN gap_input' /\ gap_last_close[s] = Null)
                => /\ s \in Range(gap_unfillable')
                   /\ s \notin DOMAIN gap_candles'
          /\ s \in DOMAIN gap_input'
                => /\ s \in DOMAIN gap_candles'
                   /\ gap_candles'[s] = gap_input'[s]
                   /\ gap_last_close'[s] = gap_input'[s].close]_vars

\* ------------------------------------ the ReconnectManager under any caller

RcInit == TB_Init /\ WP_Init /\ OR_Init /\ EXT_Init /\ now = MARKET_OPEN

\* ReconnectManager(...): a manager with the given arguments.
RcConstruct ==
    /\ \E cfg \in ReconnectConfigs : rc_config' = cfg
    /\ rc_attempts' = 0
    /\ rc_start' = 0
    /\ rc_outcomes' = <<>>
    /\ rc_trace' = <<>>
    /\ rc_result' = "none"
    /\ UNCHANGED <<coreVars, ckptVars, atrVars, gapVars, feedVars, wlogVars, sessVars, tickVars, alertVars, hbVars>>

\* One call of attempt_reconnect; the callbacks of each pass succeed or one
\* of them raises.
RcAttemptReconnect ==
    /\ \E outcomes \in [1..MaxAttempts -> ReconnectOutcomes] :
          LET r == attempt_reconnect(rc_config, rc_attempts, outcomes)
          IN  /\ rc_attempts' = r.attempts
              /\ rc_outcomes' = r.outcomes
              /\ rc_trace' = r.trace
              /\ rc_result' = r.result
    /\ rc_start' = rc_attempts
    /\ UNCHANGED <<rc_config, coreVars, ckptVars, atrVars, gapVars, feedVars, wlogVars, sessVars, tickVars, alertVars, hbVars>>

NextRc == RcConstruct \/ RcAttemptReconnect

SpecRc == RcInit /\ [][NextRc]_vars


\* The entries of a record that are not alerts: sleeps and callback calls.
IsStep(e) == e.op # "alert"

\* The entries of a record that are alerts.
IsAlert(e) == e.op = "alert"

\* refresh, connect, subscribe in that order, up to the first that fails.
CallsUpToFailure(outcome) ==
    LET order == <<"refresh", "connect", "subscribe">>
        last == IF outcome = "ok" THEN 3
                ELSE CHOOSE i \in 1..3 : order[i] = outcome
    IN  [i \in 1..last |-> CallEvent(order[i])]

\* The sleeps and calls of attempts k..Len(outcomes) of the protocol without
\* jitter: attempt k sleeps min(base * factor^(k-1), max_delay), then calls.
RECURSIVE ProtocolSteps(_, _, _)
ProtocolSteps(cfg, outcomes, k) ==
    IF k > Len(outcomes) THEN <<>>
    ELSE LET d == Min(cfg.base_delay_s * Pow(cfg.backoff_factor, k - 1),
                      cfg.max_delay_s)
         IN  <<SleepEvent(d, d)>> \o CallsUpToFailure(outcomes[k])
                \o ProtocolSteps(cfg, outcomes, k + 1)

\* C21: reconnect protocol. After a call of attempt_reconnect that began with
\* the attempt counter at 0 and jitter off: attempt k was preceded by a sleep
\* of min(base * factor^(k-1), max_delay) and called refresh, connect,
\* subscribe in that order up to the first that failed; true was returned at
\* the first attempt in which all three succeeded, with no attempt after it;
\* false was returned after exactly max_attempts failed attempts.
C21_ReconnectProtocol ==
    (rc_result # "none" /\ rc_start = 0 /\ ~rc_config.jitter)
        => /\ SelectSeq(rc_trace, IsStep) = ProtocolSteps(rc_config, rc_outcomes, 1)
           /\ Len(rc_outcomes) \in 1..rc_config.max_attempts
           /\ \A k \in 1..(Len(rc_outcomes) - 1) : rc_outcomes[k] # "ok"
           /\ rc_result = "true" <=> rc_outcomes[Len(rc_outcomes)] = "ok"
           /\ rc_result = "false"
                 => /\ Len(rc_outcomes) = rc_config.max_attempts
                    /\ \A k \in 1..Len(rc_outcomes) : rc_outcomes[k] # "ok"

\* A call that succeeded at its third attempt, after a capped sleep.
C21_Witness ==
    /\ rc_result = "true"
    /\ rc_start = 0
    /\ ~rc_config.jitter
    /\ Len(rc_outcomes) = 3
    /\ \E i \in 1..Len(rc_trace) :
          /\ rc_trace[i].op = "sleep"
          /\ rc_trace[i].lo = rc_config.max_delay_s
          /\ rc_trace[i].lo < backoff_delay_uncapped(rc_config, 2)

\* The alerts of the last call, in order.
Alerts == SelectSeq(rc_trace, IsAlert)

\* The last call fired an alert of the given severity and event for attempt k.
Fired(severity, event, k) ==
    \E i \in 1..Len(Alerts) :
        /\ Alerts[i].severity = severity
        /\ Alerts[i].event = event
        /\ Alerts[i].attempt = k

\* C22: reconnect alerts. After a call of attempt_reconnect that began with
\* the attempt counter at 0, for every alert_threshold >= 1: WARNING /
\* RECONNECT_ATTEMPT was fired if attempt 1 failed; CRITICAL /
\* RECONNECT_FAILING was fired for every failed attempt k >= alert_threshold;
\* a success at attempt k > 1 fired INFO / RECONNECT_RECOVERED with
\* attempts_taken = k and a success at attempt 1 fired nothing; exhaustion
\* fired exactly one CRITICAL / RECONNECT_EXHAUSTED, as the last alert; and
\* after a success the attempt counter is 0.
C22_ReconnectAlerts ==
    (rc_result # "none" /\ rc_start = 0)
        => LET n == Len(rc_outcomes)
           IN  /\ rc_outcomes[1] # "ok" => Fired("WARNING", "RECONNECT_ATTEMPT", 1)
               /\ \A k \in 1..n :
                     (rc_outcomes[k] # "ok" /\ k >= rc_config.alert_threshold)
                        => Fired("CRITICAL", "RECONNECT_FAILING", k)
               /\ (rc_result = "true" /\ n > 1)
                     => /\ Fired("INFO", "RECONNECT_RECOVERED", n)
                        /\ Alerts[Len(Alerts)].attempts_taken = n
               /\ (rc_result = "true" /\ n = 1) => Alerts = <<>>
               /\ rc_result = "true" => rc_attempts = 0
               /\ rc_result = "false"
                     => /\ Alerts[Len(Alerts)].event = "RECONNECT_EXHAUSTED"
                        /\ Alerts[Len(Alerts)].severity = "CRITICAL"
                        /\ Cardinality({i \in 1..Len(Alerts) :
                                          Alerts[i].event = "RECONNECT_EXHAUSTED"}) = 1

\* ------------------------------------------- the feed on a session's day

SessInit == TB_Init /\ WP_Init /\ OR_Init /\ EXT_Init /\ now = MARKET_OPEN

\* run and _setup: the session hours of the day, initialize_for_session,
\* and _run_session's start_window of the first boundary.
SessionSetup ==
    /\ sess_idx = 0
    /\ \E hours \in SessionHours :
          /\ sess_open' = hours[1]
          /\ sess_close' = hours[2]
          /\ CA_start_window(session_windows(hours[1], hours[2])[1])
    /\ sess_idx' = 1
    /\ UNCHANGED <<pipeVars, writerVars, histVars, mainVars, tickHist, bufHist,
                   ckptVars, atrVars, gapVars, rcVars, feedVars, wlogVars,
                   tickVars, alertVars, hbVars>>

\* _on_message for a tick stamped around the day's session or the regular
\* one.
SessionTick ==
    /\ sess_idx > 0
    /\ nTicks < MaxTicks
    /\ \E ts \in SessionTickTimes(sess_open, sess_close) \cup TickTimes :
          /\ WS_on_message("X", 1001, ts)
          /\ tick_ts' = ts
          /\ tick_window' = assign_tick_to_window(ts)
          /\ tick_accepted' = (assign_tick_to_window(ts) # NoWindow
                                  /\ UpdateAccepts(assign_tick_to_window(ts)))
    /\ tick_active' = active_window
    /\ tick_frozen' = frozen
    /\ prev_ts' = tick_ts
    /\ prev_window' = tick_window
    /\ UNCHANGED <<pipeVars, writerVars, histVars, aggVars, mainVars, bufHist,
                   ckptVars, atrVars, gapVars, rcVars, reconnect_log,
                   failedReconnects, wlogVars, sessVars, alertVars, hbVars>>

\* The boundary of the active window: begin_freeze.
SessionFreeze ==
    /\ agg_state = "COLLECTING"
    /\ CA_begin_freeze
    /\ UNCHANGED <<pipeVars, writerVars, histVars, mainVars, tickHist, bufHist,
                   ckptVars, atrVars, gapVars, netVars>>

\* finalize_window after the grace sleep.
SessionFinalize ==
    /\ agg_state = "FREEZING"
    /\ CA_finalize_window
    /\ UNCHANGED <<pipeVars, writerVars, histVars, mainVars, tickHist, bufHist,
                   ckptVars, atrVars, gapVars, netVars>>

\* transition_to_next_window, when the session has a next window.
SessionTransition ==
    /\ agg_state = "FROZEN"
    /\ sess_idx < Len(session_windows(sess_open, sess_close))
    /\ CA_transition_to_next_window(
           session_windows(sess_open, sess_close)[sess_idx + 1])
    /\ sess_idx' = sess_idx + 1
    /\ UNCHANGED <<pipeVars, writerVars, histVars, mainVars, tickHist, bufHist,
                   ckptVars, atrVars, gapVars, rcVars, feedVars, wlogVars,
                   sess_open, sess_close, tickVars, alertVars, hbVars>>

NextSess ==
    \/ SessionSetup
    \/ SessionTick
    \/ SessionFreeze
    \/ SessionFinalize
    \/ SessionTransition

SpecSess == SessInit /\ [][NextSess]_vars

\* The boundaries of the regular session.
Boundaries == Range(generate_all_windows)

\* C26: window assignment. For every timestamp ts with open <= ts < close,
\* assign_tick_to_window returns the largest session boundary w <= ts, so
\* w <= ts < w + 5 min; for ts < open or ts >= close it fails; and for
\* in-session t1 <= t2, assign(t1) <= assign(t2).
C26_WindowAssignment ==
    /\ (tick_ts # Null /\ MARKET_OPEN <= tick_ts /\ tick_ts < MARKET_CLOSE)
          => /\ tick_window \in Boundaries
             /\ tick_window <= tick_ts
             /\ tick_ts < tick_window + CANDLE_INTERVAL_MINUTES
             /\ \A b \in Boundaries : b <= tick_ts => b <= tick_window
    /\ (tick_ts # Null /\ (tick_ts < MARKET_OPEN \/ tick_ts >= MARKET_CLOSE))
          => tick_window = NoWindow
    /\ (/\ tick_ts # Null
        /\ prev_ts # Null
        /\ tick_window # NoWindow
        /\ prev_window # NoWindow
        /\ prev_ts <= tick_ts)
          => prev_window <= tick_window

\* A tick in the last minute of the first window after one at its start.
C26_Witness ==
    /\ tick_ts = MARKET_OPEN + CANDLE_INTERVAL_MINUTES - 1
    /\ tick_window = MARKET_OPEN
    /\ prev_ts = MARKET_OPEN
    /\ prev_window = MARKET_OPEN

\* C27: special sessions. On a session with non-standard open and close,
\* every tick stamped within the session's [open, close) is assigned to a
\* boundary of the aggregator's boundary list for that session, so it is
\* accepted when its window is the active one and the buffer is not frozen;
\* a tick stamped outside the session's hours is rejected.
C27_SpecialSessionAssignment ==
    (sess_idx > 0 /\ tick_ts # Null)
        => IF sess_open <= tick_ts /\ tick_ts < sess_close
           THEN /\ tick_window \in Range(session_windows(sess_open, sess_close))
                /\ (tick_window = tick_active /\ ~tick_frozen) => tick_accepted
           ELSE ~tick_accepted

\* -------------------------------------------- the AlertManager under any caller

AlertInit == TB_Init /\ WP_Init /\ OR_Init /\ EXT_Init /\ now = MARKET_OPEN

\* AlertManager(schema_manager), with the SchemaManager or a test double.
AlertConstruct ==
    /\ al_double' \in BOOLEAN
    /\ al_severity' = ""
    /\ al_trace' = <<>>
    /\ al_failed' = FALSE
    /\ al_raised' = FALSE
    /\ UNCHANGED <<coreVars, ckptVars, atrVars, gapVars, rcVars, feedVars,
                   wlogVars, sessVars, tickVars, hbVars>>

\* One call of fire; the store takes the row or not.
AlertFire ==
    /\ \E severity \in AlertSeverities, payload \in AlertPayloads,
          append_ok \in BOOLEAN :
          LET r == fire(al_double, severity, payload, append_ok)
          IN  /\ al_severity' = severity
              /\ al_trace' = r.trace
              /\ al_failed' = r.failed
              /\ al_raised' = r.raised
    /\ UNCHANGED <<al_double, coreVars, ckptVars, atrVars, gapVars, rcVars,
                   feedVars, wlogVars, sessVars, tickVars, hbVars>>

NextAlert == AlertConstruct \/ AlertFire

SpecAlert == AlertInit /\ [][NextAlert]_vars

\* The positions of the records of a level on the log channel.
LogRecordsAt(level) ==
    {i \in 1..Len(al_trace) :
        al_trace[i].channel = "log" /\ al_trace[i].level = level}

\* The level of a severity: critical for CRITICAL, warning for WARNING, info
\* otherwise.
LevelOf(severity) ==
    CASE severity = "CRITICAL" -> "critical"
      [] severity = "WARNING" -> "warning"
      [] OTHER -> "info"

\* C28: after every call of fire: exactly one log-channel record at the
\* level of the severity was emitted, before the attempt on the store
\* channel; fire did not raise; and when the store channel failed, that
\* record is still there and exactly one error-level record was added.
C28_AlertChannels ==
    al_trace # <<>>
        => /\ Cardinality(LogRecordsAt(LevelOf(al_severity))) = 1
           /\ \E i \in LogRecordsAt(LevelOf(al_severity)) :
                 \E j \in 1..Len(al_trace) :
                     al_trace[j].channel = "sheets" /\ i < j
           /\ Cardinality({j \in 1..Len(al_trace) :
                              al_trace[j].channel = "sheets"}) = 1
           /\ ~al_raised
           /\ al_failed => Cardinality(LogRecordsAt("error")) = 1

\* A CRITICAL alert whose store channel failed with a test double.
C28_Witness ==
    /\ al_double
    /\ al_severity = "CRITICAL"
    /\ al_failed
    /\ Len(al_trace) = 3

\* --------------------------------------- the boundary cycle and the writer

\* _finalize_at_boundary from step 5 on, for a boundary whose process_batch
\* returned the enriched candles, next to the SheetsWriter thread.  pc is the
\* main thread's position: "enqueue" (step 5), "checkpoint" (step 6), "sync"
\* (steps 7 and 8), then _cleanup in "cleanup" and "final".
BoundaryInit ==
    /\ TB_Init /\ WP_Init /\ EXT_Init
    /\ agg_state = "FROZEN"
    /\ current_window = generate_all_windows[1]
    /\ pc = "enqueue"
    /\ boundary_index = 1
    /\ start_idx = 1
    /\ candles = EmptyBuffer
    /\ feedOn = TRUE
    /\ tickWins = {}
    /\ firstCur = NoPrices
    /\ firstNext = NoPrices
    /\ now = generate_finalization_times[1]

\* Step 5: enqueue(window_start, enriched).
BoundaryEnqueue ==
    /\ pc = "enqueue"
    /\ WP_enqueue(generate_all_windows[boundary_index])
    /\ pc' = "checkpoint"
    /\ UNCHANGED <<bufVars, obsVars, aggVars, boundary_index, start_idx,
                   candles, now, feedOn, tickHist, extVars>>

\* Step 6: save_checkpoint(atr_state, window_start, False); when the write of
\* the file raises, so does _finalize_at_boundary, and run() goes to _cleanup.
BoundarySaveCheckpoint ==
    /\ pc = "checkpoint"
    /\ \E write_ok \in BOOLEAN :
          LET w == generate_all_windows[boundary_index]
          IN  /\ ckpt_files' = save_checkpoint(ckpt_files,
                                   checkpoint_data(CkStateAt(w), w, nSaves + 1,
                                                   FALSE),
                                   write_ok)
              /\ ckOp' = IF write_ok THEN "save_checkpoint" ELSE "save_raised"
              /\ pc' = IF write_ok THEN "sync" ELSE "cleanup"
    /\ nSaves' = nSaves + 1
    /\ CkForget
    /\ savedLog' = IF ckOp' = "save_checkpoint" THEN Append(savedLog, nSaves + 1)
                   ELSE savedLog
    /\ UNCHANGED <<bar_windows, atr_sheet, nDamaged, atrVars, gapVars, netVars>>
    /\ UNCHANGED <<bufVars, obsVars, pipeVars, writerVars, histVars, aggVars,
                   boundary_index, start_idx, candles, now, feedOn, tickHist,
                   bufHist>>

\* Steps 7 and 8: sync_atr_state, which catches its errors, and the
\* transition to the next window when there is one; then the next boundary,
\* or SESSION_COMPLETE after the last one.
BoundarySyncAndTransition ==
    /\ pc = "sync"
    /\ \E outcome \in {"ok", "append_failed", "resize_failed"} :
          atr_sheet' = sync_atr_state(atr_sheet,
                           get_atr_summary(CkStateAt(
                               generate_all_windows[boundary_index])),
                           outcome)
    /\ ckOp' = "sync_atr_state"
    /\ CkForget
    /\ IF boundary_index < NumBatchWindows
       THEN /\ CA_transition_to_next_window(
                  generate_all_windows[boundary_index + 1])
            /\ now' = generate_finalization_times[boundary_index + 1]
            /\ pc' = "enqueue"
       ELSE /\ pc' = "cleanup"
            /\ UNCHANGED <<bufVars, obsVars, aggVars, now>>
    /\ boundary_index' = boundary_index + 1
    /\ UNCHANGED <<ckpt_files, bar_windows, nSaves, nDamaged, savedLog, atrVars, gapVars,
                   netVars>>
    /\ UNCHANGED <<pipeVars, writerVars, histVars, start_idx, candles, feedOn,
                   tickHist, bufHist>>

\* _cleanup: disconnect and stop_consumer, whose join gives up after its
\* timeout.
BoundaryStopConsumer ==
    /\ pc = "cleanup"
    /\ feedOn' = FALSE
    /\ WP_stop_consumer
    /\ pc' = "final"
    /\ UNCHANGED <<bufVars, obsVars, aggVars, boundary_index, start_idx,
                   candles, now, tickHist, extVars>>

\* _cleanup: the final checkpoint, save_checkpoint(atr_state, now, True); an
\* error of the write is swallowed.
BoundaryFinalCheckpoint ==
    /\ pc = "final"
    /\ \E write_ok \in BOOLEAN :
          /\ ckpt_files' = save_checkpoint(ckpt_files,
                               checkpoint_data(CkStateAt(current_window), now,
                                               nSaves + 1, TRUE),
                               write_ok)
          /\ ckOp' = IF write_ok THEN "save_checkpoint" ELSE "save_raised"
    /\ pc' = "done"
    /\ nSaves' = nSaves + 1
    /\ CkForget
    /\ savedLog' = IF ckOp' = "save_checkpoint" THEN Append(savedLog, nSaves + 1)
                   ELSE savedLog
    /\ UNCHANGED <<bar_windows, atr_sheet, nDamaged, atrVars, gapVars, netVars>>
    /\ UNCHANGED <<bufVars, obsVars, pipeVars, writerVars, histVars, aggVars,
                   boundary_index, start_idx, candles, now, feedOn, tickHist,
                   bufHist>>

NextBoundary ==
    \/ BoundaryEnqueue
    \/ BoundarySaveCheckpoint
    \/ BoundarySyncAndTransition
    \/ BoundaryStopConsumer
    \/ BoundaryFinalCheckpoint
    \/ ConsumerWhile
    \/ ConsumerGetEmpty
    \/ ConsumerGet
    \/ FlushFallback
    \/ ProcessBatchDedup
    \/ ProcessBatchAppend
    \/ StoreFlip

SpecBoundary == BoundaryInit /\ [][NextBoundary]_vars

\* The checkpoint of a boundary: a file of the directory written by step 6
\* for the window.
CheckpointSavedFor(w) ==
    \E i \in DOMAIN ckpt_files :
        /\ ckpt_files[i].kind = "checkpoint"
        /\ ckpt_files[i].last_window = w
        /\ ~ckpt_files[i].sheets_write_confirmed

AtrSnapshotOf(w) == AtrSheetRows(get_atr_summary(CkStateAt(w)))

WindowStateTransitions ==
    {<<"IDLE", "COLLECTING">>, <<"COLLECTING", "FREEZING">>,
     <<"FREEZING", "FROZEN">>, <<"FROZEN", "COLLECTING">>}

\* C32: the aggregator's state changes only along IDLE to COLLECTING,
\* COLLECTING to FREEZING, FREEZING to FROZEN, FROZEN to COLLECTING and any
\* state to IDLE; begin_freeze called outside COLLECTING and finalize_window
\* called outside FREEZING change neither the state nor the buffer; and
\* after the session has ended the state is IDLE.
C32_WindowStateMachine ==
    [][/\ agg_state' # agg_state
            => \/ <<agg_state, agg_state'>> \in WindowStateTransitions
               \/ agg_state' = "IDLE"
       /\ (pc = "wait" /\ pc' = "grace" /\ agg_state # "COLLECTING")
            => UNCHANGED <<agg_state, buffer>>
       /\ (pc = "grace" /\ pc' = "finalized" /\ agg_state # "FREEZING")
            => UNCHANGED <<agg_state, buffer>>
       /\ pc' = "done" => agg_state' = "IDLE"]_vars

\* C33: a rejected TickBuffer.update leaves the accumulator map, the active
\* window and the frozen flag unchanged and increments exactly one counter
\* by one: the late-tick counter when the buffer is frozen or the tick's
\* window is before the active one, the future-tick counter when the buffer
\* is not frozen and the tick's window is after the active one; an accepted
\* update changes no counter.
C33_RejectedUpdateFrame ==
    [][nTicks' = nTicks + 1
          => IF lastRet'
             THEN UNCHANGED <<late_tick_count, future_tick_count>>
             ELSE /\ UNCHANGED <<buffer, active_window, frozen>>
                  /\ IF frozen \/ lastWin' < active_window
                     THEN /\ late_tick_count' = late_tick_count + 1
                          /\ UNCHANGED future_tick_count
                     ELSE /\ ~frozen /\ lastWin' > active_window
                          /\ future_tick_count' = future_tick_count + 1
                          /\ UNCHANGED late_tick_count]_vars

\* A tick for a window still to come was just rejected by a buffer that
\* holds a bar and has rejected a late tick before.
C33_Witness ==
    /\ lastOp = "update"
    /\ ~lastRet
    /\ ~frozen
    /\ lastWin > active_window
    /\ late_tick_count >= 1
    /\ future_tick_count >= 1
    /\ buffer # EmptyBuffer

\* checkpoint_k.json holds the record of the k-th successful save before the
\* one in checkpoint.json, for every k up to MAX_CHECKPOINT_FILES and the
\* number of earlier successful saves.
RotatedCopiesInOrder ==
    LET n == Len(savedLog)
    IN  n >= 1
          => /\ ckpt_files[0].kind = "checkpoint"
             /\ ckpt_files[0].saved_at = savedLog[n]
             /\ \A k \in 1..Min(MAX_CHECKPOINT_FILES, n - 1) :
                   /\ ckpt_files[k].kind = "checkpoint"
                   /\ ckpt_files[k].saved_at = savedLog[n - k]

\* The rotated copies in the directory.
RotatedCopies ==
    {k \in DOMAIN ckpt_files : k # 0 /\ ckpt_files[k] # Absent}

FeedInit == TB_Init /\ WP_Init /\ OR_Init /\ EXT_Init /\ now = MARKET_OPEN

\* The position of a thread in _handle_reconnect.
rc_position(thread) == IF thread = "main" THEN rc_main ELSE rc_feed

rc_goto(thread, position) ==
    IF thread = "main"
    THEN rc_main' = position /\ UNCHANGED rc_feed
    ELSE rc_feed' = position /\ UNCHANGED rc_main

\* _setup steps 4 to 6: the feed is connected and subscribed.
FeedSetup ==
    /\ pc = "setup"
    /\ pc' = "run_session"
    /\ feedOn' = TRUE
    /\ ws_connected' = TRUE
    /\ last_delivery' = now
    /\ UNCHANGED <<bufVars, obsVars, aggVars, boundary_index, start_idx,
                   candles, now, tickHist, pipeVars, writerVars, histVars,
                   bufHist, ckptVars, atrVars, gapVars, rcVars, feedVars,
                   wlogVars, sessVars, tickVars, alertVars, rc_main, rc_feed,
                   reconnected_at>>

\* The feed thread delivers a message to _on_message.
FeedMessage ==
    /\ feedOn
    /\ pc = "wait"
    /\ nTicks < MaxTicks
    /\ \E s \in Symbols, p \in BufPrices, ts \in TickTimes :
          /\ ts <= now
          /\ now - ts <= MaxLatency
          /\ WS_on_message(s, p, ts)
    /\ last_delivery' = now
    /\ UNCHANGED <<aggVars, mainVars, pipeVars, writerVars, histVars, bufHist,
                   ckptVars, atrVars, gapVars, rcVars, reconnect_log,
                   failedReconnects, wlogVars, sessVars, tickVars, alertVars,
                   rc_main, rc_feed, ws_connected, reconnected_at>>

\* A minute passes while the boundary is ahead.
FeedClock ==
    /\ pc = "wait"
    /\ now < generate_finalization_times[boundary_index]
    /\ now' = now + 1
    /\ UNCHANGED <<bufVars, obsVars, aggVars, pc, boundary_index, start_idx,
                   candles, feedOn, tickHist, pipeVars, writerVars, histVars,
                   extVars>>

\* The wait loop with the boundary ahead: check_heartbeat returns False and
\* the main thread enters _handle_reconnect.
HeartbeatTrigger ==
    /\ pc = "wait"
    /\ rc_main = "idle"
    /\ now < generate_finalization_times[boundary_index]
    /\ ~check_heartbeat(now)
    /\ rc_main' = "disconnect"
    /\ UNCHANGED <<coreVars, ckptVars, atrVars, gapVars, rcVars, feedVars,
                   wlogVars, sessVars, tickVars, alertVars, rc_feed,
                   ws_connected, last_delivery, reconnected_at>>

\* The connection closes under the subscribed client: _on_close, on the feed
\* thread, clears the flags and enters _handle_reconnect.
FeedClose ==
    /\ feedOn
    /\ pc = "wait"
    /\ rc_feed = "idle"
    /\ feedOn' = FALSE
    /\ ws_connected' = FALSE
    /\ rc_feed' = "disconnect"
    /\ UNCHANGED <<bufVars, obsVars, aggVars, pc, boundary_index, start_idx,
                   candles, now, tickHist, pipeVars, writerVars, histVars,
                   bufHist, ckptVars, atrVars, gapVars, rcVars, feedVars,
                   wlogVars, sessVars, tickVars, alertVars, rc_main,
                   last_delivery, reconnected_at>>

\* _handle_reconnect leaves through its except clause: RECONNECT_FAILED.
rc_failed(thread) ==
    /\ rc_goto(thread, "idle")
    /\ reconnect_log' = "error"
    /\ failedReconnects' = Min(failedReconnects + 1, MaxReconnectFailures)
    /\ UNCHANGED <<feedOn, ws_connected, reconnected_at>>

\* _handle_reconnect: disconnect(), which catches what close() raises.
ReconnectDisconnect ==
    /\ \E thread \in {"main", "feed"} :
          /\ rc_position(thread) = "disconnect"
          /\ rc_goto(thread, "refresh")
    /\ feedOn' = FALSE
    /\ ws_connected' = FALSE
    /\ UNCHANGED <<bufVars, obsVars, aggVars, pc, boundary_index, start_idx,
                   candles, now, tickHist, pipeVars, writerVars, histVars,
                   bufHist, ckptVars, atrVars, gapVars, rcVars, feedVars,
                   wlogVars, sessVars, tickVars, alertVars, last_delivery,
                   reconnected_at>>

\* _handle_reconnect: the sleep and refresh_session().
ReconnectRefresh ==
    /\ \E thread \in {"main", "feed"}, ok \in BOOLEAN :
          /\ rc_position(thread) = "refresh"
          /\ IF ok
             THEN /\ rc_goto(thread, "connect")
                  /\ UNCHANGED <<feedOn, ws_connected, reconnected_at,
                                 reconnect_log, failedReconnects>>
             ELSE rc_failed(thread)
    /\ UNCHANGED <<bufVars, obsVars, aggVars, pc, boundary_index, start_idx,
                   candles, now, tickHist, pipeVars, writerVars, histVars,
                   bufHist, ckptVars, atrVars, gapVars, rcVars, last_tick,
                   wlogVars, sessVars, tickVars, alertVars, last_delivery>>

\* _handle_reconnect: connect().
ReconnectConnect ==
    /\ \E thread \in {"main", "feed"}, ok \in BOOLEAN :
          /\ rc_position(thread) = "connect"
          /\ IF ok
             THEN /\ rc_goto(thread, "subscribe")
                  /\ ws_connected' = TRUE
                  /\ UNCHANGED <<feedOn, reconnected_at, reconnect_log,
                                 failedReconnects>>
             ELSE rc_failed(thread)
    /\ UNCHANGED <<bufVars, obsVars, aggVars, pc, boundary_index, start_idx,
                   candles, now, tickHist, pipeVars, writerVars, histVars,
                   bufHist, ckptVars, atrVars, gapVars, rcVars, last_tick,
                   wlogVars, sessVars, tickVars, alertVars, last_delivery>>

\* _handle_reconnect: subscribe(), which raises when _connected is False,
\* then RECONNECT_SUCCESS and log_event, which catches its own errors.
ReconnectSubscribe ==
    /\ \E thread \in {"main", "feed"}, ok \in BOOLEAN :
          /\ rc_position(thread) = "subscribe"
          /\ IF ok /\ ws_connected
             THEN /\ rc_goto(thread, "idle")
                  /\ feedOn' = TRUE
                  /\ reconnect_log' = "info"
                  /\ failedReconnects' = 0
                  /\ reconnected_at' = IF thread = "main" THEN now
                                       ELSE reconnected_at
                  /\ UNCHANGED ws_connected
             ELSE rc_failed(thread)
    /\ UNCHANGED <<bufVars, obsVars, aggVars, pc, boundary_index, start_idx,
                   candles, now, tickHist, pipeVars, writerVars, histVars,
                   bufHist, ckptVars, atrVars, gapVars, rcVars, last_tick,
                   wlogVars, sessVars, tickVars, alertVars, last_delivery>>

\* The wait loop finds the boundary reached: _finalize_at_boundary begins.
FeedBoundary ==
    /\ rc_main = "idle"
    /\ BeginFreeze

NextFeed ==
    \/ FeedSetup
    \/ RunSessionStart
    \/ FeedMessage
    \/ FeedClock
    \/ HeartbeatTrigger
    \/ FeedClose
    \/ ReconnectDisconnect
    \/ ReconnectRefresh
    \/ ReconnectConnect
    \/ ReconnectSubscribe
    \/ FeedBoundary

SpecFeed == FeedInit /\ [][NextFeed]_vars

\* C35: while the session is open, check_heartbeat returns unhealthy
\* whenever the feed has delivered no tick for more than
\* HEARTBEAT_SILENCE_TIMEOUT_S, and healthy otherwise.
C35_HeartbeatDetectsSilence ==
    pc = "wait"
        => (check_heartbeat(now)
              <=> (now - last_delivery) * 60 <= HEARTBEAT_SILENCE_TIMEOUT_S)

\* C39: at most one reconnect cycle (disconnect, refresh session, connect,
\* subscribe) is in progress at any time, whether the scheduler's heartbeat
\* check or the feed client's on-close callback triggered it; in particular
\* none starts while another is in its disconnect step.
C39_OneReconnectCycle ==
    ~(rc_main # "idle" /\ rc_feed # "idle")

\* C40: after a reconnect cycle triggered by heartbeat silence has completed
\* successfully, check_heartbeat reports healthy until a further
\* HEARTBEAT_SILENCE_TIMEOUT_S without ticks have elapsed since that
\* reconnect, so that one silence episode triggers at most one cycle per
\* timeout.
C40_HealthyAfterReconnect ==
    (/\ pc = "wait"
     /\ reconnected_at # 0
     /\ (now - reconnected_at) * 60 <= HEARTBEAT_SILENCE_TIMEOUT_S)
        => check_heartbeat(now)

\* ----------------------------------------------- runs that end in setup

\* The checkpoint directory and the store across processes: sessions that
\* save checkpoints and write the store, runs that end before _setup has
\* loaded a state into the engine, and the reconciliation of the next
\* startup.  The wall clock is past every window of the sessions before.
StartupInit == TB_Init /\ WP_Init /\ OR_Init /\ EXT_Init /\ now = MARKET_CLOSE

\* run() on a non-trading day (return at line 101), with login() raising
\* AuthenticationFailed or with any error of _setup before load_state: the
\* finally clause runs _cleanup, whose final checkpoint saves the state of
\* the engine, still empty, with last_window = now and
\* sheets_write_confirmed = True; an error of the write is swallowed.  What
\* the process held in memory ends with it.
RunEndsBeforeReconciliation ==
    /\ nSaves < MaxSaves
    /\ \E write_ok \in BOOLEAN :
          /\ ckpt_files' = save_checkpoint(ckpt_files,
                               checkpoint_data(EmptyState, now, nSaves + 1,
                                               TRUE),
                               write_ok)
          /\ savedLog' = IF write_ok THEN Append(savedLog, nSaves + 1)
                         ELSE savedLog
    /\ ckOp' = "run_ended_in_setup"
    /\ nSaves' = nSaves + 1
    /\ CkForget
    /\ UNCHANGED <<bar_windows, atr_sheet, nDamaged, coreVars, atrVars,
                   gapVars, netVars>>

NextStartup ==
    \/ ReconSave
    \/ ReconStoreAppend
    \/ ReconSyncAtrState
    \/ RunEndsBeforeReconciliation
    \/ ReconReconcile

SpecStartup == StartupInit /\ [][NextStartup]_vars

\* C36: a run that ends before the startup reconciliation has loaded a state
\* into the engine leaves the last_window and the atr_state of the canonical
\* checkpoint as they were.
C36_AbortedRunKeepsCheckpoint ==
    [][(ckOp' = "run_ended_in_setup" /\ ckpt_files[0].kind = "checkpoint")
          => /\ ckpt_files'[0].kind = "checkpoint"
             /\ ckpt_files'[0].last_window = ckpt_files[0].last_window
             /\ ckpt_files'[0].atr_state = ckpt_files[0].atr_state]_vars

C38_FreshAttemptsPerInvocation ==
    (rc_result # "none" /\ rc_config.max_attempts >= 1)
        => /\ rc_start = 0
           /\ rc_result = "false" => Len(rc_outcomes) >= 1

====
